---- MODULE Spec2Model ----
(***************************************************************************)
(* Live API WebSocket proxy (voice session gateway): the per-connection   *)
(* relay of setupLiveWs and the per-IP admission table ipSessions.        *)
(*                                                                         *)
(* One step of the model is one callback of the Node event loop: a client *)
(* frame, a client socket close, an upstream (provider) event or the      *)
(* expiry of a session duration timer.  Callbacks run to completion, so   *)
(* each is one atomic action.                                              *)
(*                                                                         *)
(* The module also holds the context sanitizer of the gateway (a pure     *)
(* function, under SpecSanitize) and the playback scheduler of the client *)
(* (LiveTutor, under SpecPlayback), where one step is one task or one     *)
(* promise continuation of the browser's event loop.                      *)
(*                                                                         *)
(* Time is counted in ticks.  The limits of the source are scaled down so *)
(* that every limit can be reached and exceeded by a handful of           *)
(* connections; their order is kept (session ceiling < one hour,          *)
(* concurrency limit < hourly limit):                                      *)
(*   SESSION_MAX_DURATION_MS        8 * 60 * 1000 ms  ->  1 tick           *)
(*   HOUR_MS                        60 * 60 * 1000 ms ->  2 ticks          *)
(*   MAX_CONCURRENT_SESSIONS_PER_IP 5                 ->  2                *)
(*   MAX_SESSIONS_PER_IP_PER_HOUR   20                ->  3                *)
(***************************************************************************)
EXTENDS Integers, Sequences, FiniteSets, TLC

\* ---------------------------------------------------------------- bounds
\* Connection slots (a slot is reused by a new connection once the old one
\* has left nothing behind): one for the relay specification, one for the
\* traced connection, the rest for the admission specification.
NConn == 5
\* The clock stops advancing at MaxTime.
MaxTime == 2
\* realtime/content frames one connection sends in its lifetime.
MaxMsgs == 2
\* Frames of any kind the traced connection sends in its lifetime.
MaxFrames == 3
\* Payloads the provider emits on the upstream of the traced connection.
MaxPayloads == 2
\* Characters of a context string after its padding.
MaxTail == 3
\* Audio buffers the server sends to the player in one session.
MaxBuffers == 3
\* Audio parts of one server message.
MaxParts == 2
\* audioBuffer.duration of a buffer, in ticks of the audio clock.
MaxDuration == 2
\* The audio clock stops advancing at MaxAudioTime.
MaxAudioTime == 3
\* Interruption signals the provider sends in one session.
MaxInterrupts == 2
\* Events the client component handles in one session.
MaxClientEvents == 6
\* Samples of one captured frame.
MaxSamples == 2
\* A sample is a whole number of 1/Units of a 16-bit quantization step.
Units == 4
\* part_003:14  SESSION_MAX_DURATION_MS = 8 * 60 * 1000, in ticks.
SESSION_MAX_DURATION_MS == 1
\* part_003:29  60 * 60 * 1000, in ticks.
HOUR_MS == 2
\* part_003:15  MAX_CONCURRENT_SESSIONS_PER_IP = 5, scaled.
MAX_CONCURRENT_SESSIONS_PER_IP == 2
\* part_003:16  MAX_SESSIONS_PER_IP_PER_HOUR = 20, scaled.
MAX_SESSIONS_PER_IP_PER_HOUR == 3

\* ------------------------------------------------------- program constants
CONTEXT_MAX_LENGTH == 100
\* LingoMascot.tsx:361, 375  the scale between a float sample and PCM16.
PCM_SCALE == 32768

ALLOWED_LANGUAGES ==
    {"Spanish", "French", "Japanese", "German", "Italian", "Chinese",
     "Hindi", "Tamil", "English"}

Conns == 1..NConn
\* The relay specification follows one connection at a time: slot 1, taken
\* by one connection after another.
RelayConns == {1}
\* The traced connection: slot 2.  The frames it sends and receives are
\* counted and the provider payloads of its upstream are logged.
TracedConns == {2}
\* The connections of the admission specification: the remaining slots.
AdmissionConns == Conns \ (RelayConns \cup TracedConns)
\* The connections whose client-side socket is observed: the frames they
\* receive are recorded in lastEvent.
Observed == {1, 2, 3}
\* One client address: ipSessions is keyed by address and no handler reads
\* or writes the entry of another address.
IPs == {"10.0.0.1"}

\* ------------------------------------------------------------------ state
VARIABLES
    now,                  \* Date.now(), in ticks
    ipSessions,           \* Map ip -> {count, timestamps}; DOMAIN = keys present
    conn,                 \* clientWs of the slot: "none" | "open" | "closed"
    clientIp,             \* getClientIp(request) of the connection
    session,              \* let session: TRUE iff non-null
    initDone,             \* let initDone
    sessionDurationTimer, \* {} when null, {deadline} when armed
    pending,              \* const pending: ClientMsg[]
    upstream,             \* provider side of ai.live.connect:
                          \* "none" | "connecting" | "open" | "errored" |
                          \* "closed" | "failed"
    relayed,              \* what the provider session received, in order
    nsent,                \* realtime/content frames received on the connection
    lastEvent,            \* last frame delivered to an observed client socket
    connects,             \* calls of ai.live.connect made for the connection
    flushed,              \* messages flushPending handed to the upstream
    liveAvailable,        \* ai.live?.connect exists in the SDK in use
    \* the traced connection, seen from outside the gateway
    nframes,              \* frames its client has sent
    lastFrame,            \* the last of them
    nevents,              \* frames its client has received
    emitted,              \* payloads the provider emitted on its upstream
    delivered,            \* payloads its client received, in order
    \* sanitizeContext and validateLiveInit applied to one context string
    \* (a result not yet computed is <<>>, a computed result r is <<r>>)
    rawContext,           \* the context of the init frame
    sanitized,            \* sanitizeContext(rawContext)
    resanitized,          \* sanitizeContext of that
    handed,               \* validation.context, if validation passed
    \* the playback scheduler of the client (LiveTutor in LingoMascot.tsx)
    path,                 \* "proxied" (no client key) | "direct"
    ctxState,             \* outputAudioCtx.state
    audioNow,             \* outputAudioCtx.currentTime, in ticks
    nextStartTime,        \* nextStartTimeRef.current
    sources,              \* sourcesRef.current: the buffers in the live set
    scheduled,            \* every source.start so far, in call order
    microtasks,           \* promise continuations queued, in order
    waiters,              \* continuations waiting for outputAudioCtx.resume()
    duration,             \* audioBuffer.duration of each buffer, by arrival
    interrupts,           \* every interruption processed so far, in order
    cancelled,            \* cancelledRef.current
    \* the session of the client (LiveTutor), once over each transport
    client,               \* path -> the refs, locals and outputs of LiveTutor
    nclient,              \* events handled so far
    \* the audio codec of the client (a result not yet computed is <<>>)
    samples,              \* the Float32Array given to createBlob, in units
    blob,                 \* createBlob(samples).data: base64 text
    pcm,                  \* the Int16Array decodeAudioData reads from it
    channelData           \* the decoded samples, in units

vars == <<now, ipSessions, conn, clientIp, session, initDone,
          sessionDurationTimer, pending, upstream, relayed, nsent, lastEvent,
          connects, flushed, liveAvailable,
          nframes, lastFrame, nevents, emitted, delivered,
          rawContext, sanitized, resanitized, handed,
          path, ctxState, audioNow, nextStartTime, sources, scheduled,
          microtasks, waiters, duration, interrupts, cancelled,
          client, nclient, samples, blob, pcm, channelData>>

\* The gateway's variables, the sanitizer's and the player's.
server == <<now, ipSessions, conn, clientIp, session, initDone,
            sessionDurationTimer, pending, upstream, relayed, nsent,
            lastEvent, connects, flushed, liveAvailable,
            nframes, lastFrame, nevents, emitted, delivered>>

sanitizer == <<rawContext, sanitized, resanitized, handed>>

player == <<path, ctxState, audioNow, nextStartTime, sources, scheduled,
            microtasks, waiters, duration, interrupts, cancelled>>

tutor == <<client, nclient>>

codec == <<samples, blob, pcm, channelData>>

\* ------------------------------------------------------- pure functions
\* JavaScript \s restricted to the code points the model draws from.
IsWhitespace(ch) == ch \in {9, 10, 11, 12, 13, 32, 160}
\* [\x00-\x1f\x7f]
IsControl(ch) == (0 <= ch /\ ch <= 31) \/ ch = 127

\* .replace(/\s+/g, ' '): every run of whitespace becomes one space (the
\* last character of a run is replaced by the space, the others are dropped).
CollapseWs(s) ==
    LET Dropped == -1
        marked == [i \in 1..Len(s) |->
                      IF ~IsWhitespace(s[i]) THEN s[i]
                      ELSE IF i < Len(s) /\ IsWhitespace(s[i + 1])
                           THEN Dropped
                           ELSE 32]
    IN  SelectSeq(marked, LAMBDA ch : ch # Dropped)

RECURSIVE TrimLeft(_)
TrimLeft(s) ==
    IF s # <<>> /\ IsWhitespace(Head(s)) THEN TrimLeft(Tail(s)) ELSE s

RECURSIVE TrimRight(_)
TrimRight(s) ==
    IF s # <<>> /\ IsWhitespace(s[Len(s)])
    THEN TrimRight(SubSeq(s, 1, Len(s) - 1))
    ELSE s

\* String.prototype.trim
Trim(s) == TrimRight(TrimLeft(s))

\* .replace(/[\x00-\x1f\x7f]/g, '')
StripControl(s) == SelectSeq(s, LAMBDA ch : ~IsControl(ch))

\* .slice(0, n)
Slice0(s, n) == IF Len(s) <= n THEN s ELSE SubSeq(s, 1, n)

sanitizeContext(raw) ==
    LET trimmed == Trim(CollapseWs(raw))
        noControl == StripControl(trimmed)
    IN  Slice0(noControl, CONTEXT_MAX_LENGTH)

\* String(language).trim() on the language strings the model draws from.
TrimLanguage(language) ==
    CASE language = " French " -> "French"
      [] language = "   " -> ""
      [] OTHER -> language

\* validateLiveInit: "ok", or the message of the rejection.
validateLiveInit(language, context) ==
    IF TrimLanguage(language) \notin ALLOWED_LANGUAGES THEN "Invalid language"
    ELSE IF sanitizeContext(context) = <<>> THEN "Invalid context"
    ELSE "ok"

\* validation.context: what validateLiveInit returns with ok: true.
validatedContext(language, context) == sanitizeContext(context)

\* ------------------------------------------------------------ rate table
NewEntry == [count |-> 0, timestamps |-> <<>>]

Entry(tbl, ip) == IF ip \in DOMAIN tbl THEN tbl[ip] ELSE NewEntry

SetEntry(tbl, ip, e) ==
    [x \in DOMAIN tbl \cup {ip} |-> IF x = ip THEN e ELSE tbl[x]]

\* checkLiveRateLimit recording the attempt as a session start.
checkLiveRateLimitTable_Stamps(tbl, ip, t) ==
    LET hourAgo == t - HOUR_MS
        entry == Entry(tbl, ip)
    IN  SetEntry(tbl, ip,
                 [entry EXCEPT
                     !.timestamps =
                         Append(SelectSeq(@, LAMBDA x : x > hourAgo), t)])

\* checkLiveRateLimit keeping a timestamp that is exactly one hour old.
checkLiveRateLimitTable_KeepsHourOld(tbl, ip, t) ==
    LET hourAgo == t - HOUR_MS
        entry == Entry(tbl, ip)
    IN  SetEntry(tbl, ip,
                 [entry EXCEPT
                     !.timestamps = SelectSeq(@, LAMBDA x : x >= hourAgo)])

\* The table after checkLiveRateLimit(ip): the entry exists and is pruned.
checkLiveRateLimitTable(tbl, ip, t) ==
    LET hourAgo == t - HOUR_MS
        entry == Entry(tbl, ip)
    IN  SetEntry(tbl, ip,
                 [entry EXCEPT
                     !.timestamps = SelectSeq(@, LAMBDA x : x > hourAgo)])

\* checkLiveRateLimit comparing the hourly count with > instead of >=.
checkLiveRateLimit_OffByOne(tbl, ip, t) ==
    LET entry == checkLiveRateLimitTable(tbl, ip, t)[ip]
    IN  IF entry.count >= MAX_CONCURRENT_SESSIONS_PER_IP
        THEN "Too many concurrent sessions"
        ELSE IF Len(entry.timestamps) > MAX_SESSIONS_PER_IP_PER_HOUR
             THEN "Rate limit exceeded"
             ELSE "allowed"

\* The result of checkLiveRateLimit(ip): "allowed", or the reason.
checkLiveRateLimit(tbl, ip, t) ==
    LET entry == checkLiveRateLimitTable(tbl, ip, t)[ip]
    IN  IF entry.count >= MAX_CONCURRENT_SESSIONS_PER_IP
        THEN "Too many concurrent sessions"
        ELSE IF Len(entry.timestamps) >= MAX_SESSIONS_PER_IP_PER_HOUR
             THEN "Rate limit exceeded"
             ELSE "allowed"

recordSessionStart(tbl, ip, t) ==
    IF ip \in DOMAIN tbl
    THEN [tbl EXCEPT ![ip].count = @ + 1,
                     ![ip].timestamps = Append(@, t)]
    ELSE tbl

recordSessionEnd(tbl, ip) ==
    IF ip \in DOMAIN tbl /\ tbl[ip].count > 0
    THEN [tbl EXCEPT ![ip].count = @ - 1]
    ELSE tbl

Count(ip) == Entry(ipSessions, ip).count

\* ---------------------------------------------------------------- frames
InitFrame(language, context, mode) ==
    [type |-> "init", language |-> language, context |-> context,
     pronunciationMode |-> mode, audio |-> FALSE, turns |-> FALSE]

Gato == <<103, 97, 116, 111>>

\* A valid init in each mode, one with a padded language, and one init for
\* each way of being refused.
InitFrames ==
    { InitFrame("Spanish", Gato, "guide"),
      InitFrame(" French ", Gato, "score"),
      InitFrame("Klingon", Gato, "guide"),
      InitFrame("", Gato, "guide"),
      InitFrame("Spanish", <<>>, "guide"),
      InitFrame("Spanish", <<0>>, "guide"),
      InitFrame("Spanish", <<32, 9>>, "score") }

DataFrames ==
    { [type |-> "realtime", language |-> "", context |-> <<>>,
       pronunciationMode |-> "", audio |-> TRUE, turns |-> FALSE],
      [type |-> "content", language |-> "", context |-> <<>>,
       pronunciationMode |-> "", audio |-> FALSE, turns |-> TRUE] }

\* Frames the handler drops: not JSON, an unknown type, realtime without
\* audio, content without turns.
JunkFrames ==
    { [type |-> t, language |-> "", context |-> <<>>,
       pronunciationMode |-> "", audio |-> FALSE, turns |-> FALSE]
      : t \in {"unparsable", "ping", "realtime", "content"} }

Frames == InitFrames \cup DataFrames \cup JunkFrames

\* The JSON text null: JSON.parse succeeds and returns null.
NullFrame ==
    [type |-> "null", language |-> "", context |-> <<>>,
     pronunciationMode |-> "", audio |-> FALSE, turns |-> FALSE]

\* The frames of the traced client.
TraceFrames == Frames \cup {NullFrame}

\* The frames of the admission specification: an init that is accepted when
\* admitted, one that fails validation, one without its language, and a
\* frame the handler drops.
AdmissionFrames ==
    { InitFrame("Spanish", Gato, "guide"),
      InitFrame("Klingon", Gato, "guide"),
      InitFrame("", Gato, "guide") }
    \cup {f \in JunkFrames : f.type = "ping"}

IsData(f) ==
    \/ f.type = "realtime" /\ f.audio
    \/ f.type = "content" /\ f.turns

\* The frames of the gateway: {type: 'open' | 'close'}, a provider payload
\* ("message"), {type: 'error', message}.
NoEvent == <<>>
Event(type) == <<type>>
Error(message) == <<"error", message>>

\* clientWs.send: delivered only while the client socket is open (a send on
\* a closed socket throws or is dropped; every call site swallows it).
Send(c, ev) ==
    /\ lastEvent' = IF c \in Observed /\ conn[c] = "open"
                    THEN [lastEvent EXCEPT ![c] = ev]
                    ELSE lastEvent
    /\ nevents' = IF c \in TracedConns /\ conn[c] = "open"
                  THEN [nevents EXCEPT ![c] = @ + 1]
                  ELSE nevents

\* The callback sends nothing to the client.
NoSend == UNCHANGED <<lastEvent, nevents>>

\* What the provider emits: the message objects handed to callbacks.onmessage.
Payloads == {"audio", "text"}

\* The failures the provider or the SDK can report (the argument of onerror
\* and of the rejected connect promise).
ErrorDetails == {"quota exceeded for key", "ECONNRESET"}

NoFrame == [type |-> "none", audio |-> FALSE, turns |-> FALSE]

\* session.sendRealtimeInput / sendClientContent: the provider receives the
\* message while its socket is open; on a closed one the call throws and the
\* catch drops the message.
Deliver(c, log, m) == IF upstream[c] = "open" THEN Append(log, m) ELSE log

\* flushPending that skips the content branch.
flushPending_RealtimeOnly(q) == SelectSeq(q, LAMBDA m : m.type = "realtime")

\* flushPending: what the pending queue sends, in queue order.
flushPending(q) == SelectSeq(q, LAMBDA m : m.type \in {"realtime", "content"})

\* ------------------------------------------------------------------ Init
\* The gateway with no connection yet.
ServerIdle ==
    /\ now = 0
    /\ ipSessions = << >>
    /\ conn = [c \in Conns |-> "none"]
    /\ clientIp = [c \in Conns |-> "10.0.0.1"]
    /\ session = [c \in Conns |-> FALSE]
    /\ initDone = [c \in Conns |-> FALSE]
    /\ sessionDurationTimer = [c \in Conns |-> {}]
    /\ pending = [c \in Conns |-> <<>>]
    /\ upstream = [c \in Conns |-> "none"]
    /\ relayed = [c \in Conns |-> <<>>]
    /\ nsent = [c \in Conns |-> 0]
    /\ lastEvent = [c \in Conns |-> NoEvent]
    /\ connects = [c \in Conns |-> 0]
    /\ flushed = [c \in Conns |-> 0]
    /\ liveAvailable \in BOOLEAN
    /\ nframes = [c \in Conns |-> 0]
    /\ lastFrame = [c \in Conns |-> NoFrame]
    /\ nevents = [c \in Conns |-> 0]
    /\ emitted = [c \in Conns |-> <<>>]
    /\ delivered = [c \in Conns |-> <<>>]

\* No context under examination.
SanitizerIdle ==
    /\ rawContext = <<>>
    /\ sanitized = <<>>
    /\ resanitized = <<>>
    /\ handed = <<>>

\* The client component before a session: the refs as useRef creates them.
PlayerIdle ==
    /\ path = "proxied"
    /\ ctxState = "running"
    /\ audioNow = 0
    /\ nextStartTime = 0
    /\ sources = {}
    /\ scheduled = <<>>
    /\ microtasks = <<>>
    /\ waiters = <<>>
    /\ duration = <<>>
    /\ interrupts = <<>>
    /\ cancelled = FALSE

Paths == {"proxied", "direct"}

\* LiveTutor before its effect has run, in the given pronunciationMode:
\* useState('idle'), the refs as useRef creates them, nothing requested,
\* started or sent.
\*   started      the effect has set the session up (sessionRef.current)
\*   opened       the open event has been handled
\*   cancelled    cancelledRef.current
\*   micStarted   micStartedRef.current
\*   micStream    the local micStream holds a granted stream
\*   streams      every stream getUserMedia has resolved with, in order:
\*                "live", or "stopped" once its tracks are stopped
\*   held         the place in streams of the stream micStream holds (0
\*                while it holds none)
\*   inputCtx     inputAudioCtx.state
\*   requests     getUserMedia calls not yet settled, by the place of the
\*                call ("open" or "lazy")
\*   capturing    a script processor is connected and running
\*   playing      sourcesRef.current.size
\*   status       the last status given to updateStatus
\*   statusLog    the status changes, in order
\*   heard        a provider message with audio has been received
\*   asked        every getUserMedia call: where it was made and whether
\*                audio had been heard by then
\*   captures     every capture pipeline started: where and whether audio had
\*                been heard by then
\*   sent         the messages sent to the gateway or the provider, by type
\*   keyErrors    calls of onKeyError
\*   failures     microphone refusals and failed AudioContext constructions
\*   down         an error event, a close event or a socket close has set
\*                the status to idle
Mounted(mode) ==
    [mode |-> mode, started |-> FALSE, opened |-> FALSE, cancelled |-> FALSE,
     micStarted |-> FALSE, micStream |-> FALSE, streams |-> <<>>,
     held |-> 0, inputCtx |-> "running",
     requests |-> <<>>, capturing |-> FALSE, playing |-> 0,
     status |-> "idle", statusLog |-> <<>>, heard |-> FALSE,
     asked |-> <<>>, captures |-> <<>>, sent |-> <<>>, keyErrors |-> 0,
     failures |-> 0, down |-> FALSE]

TutorIdle ==
    /\ client = [p \in Paths |-> Mounted("guide")]
    /\ nclient = 0

\* No frame captured yet.
CodecIdle ==
    /\ samples = <<>>
    /\ blob = <<>>
    /\ pcm = <<>>
    /\ channelData = <<>>

Init == ServerIdle /\ SanitizerIdle /\ PlayerIdle /\ TutorIdle /\ CodecIdle

\* --------------------------------------------------------------- actions
\* Nothing of the slot's previous connection remains: the client socket is
\* gone, no upstream is connecting or open, no timer is armed.
Quiescent(c) ==
    /\ conn[c] = "closed"
    /\ upstream[c] \notin {"connecting", "open", "errored"}
    /\ sessionDurationTimer[c] = {}

Free(c) == conn[c] = "none" \/ Quiescent(c)

\* wss.on('connection'): a new connection with fresh per-connection state.
\* In the admission specification it takes the lowest free slot (slot
\* numbers are names, nothing more).
Connect(c, ip) ==
    /\ Free(c)
    /\ \A d \in AdmissionConns : d < c => ~Free(d)
    /\ conn' = [conn EXCEPT ![c] = "open"]
    /\ clientIp' = [clientIp EXCEPT ![c] = ip]
    /\ session' = [session EXCEPT ![c] = FALSE]
    /\ initDone' = [initDone EXCEPT ![c] = FALSE]
    /\ sessionDurationTimer' = [sessionDurationTimer EXCEPT ![c] = {}]
    /\ pending' = [pending EXCEPT ![c] = <<>>]
    /\ upstream' = [upstream EXCEPT ![c] = "none"]
    /\ relayed' = [relayed EXCEPT ![c] = <<>>]
    /\ nsent' = [nsent EXCEPT ![c] = 0]
    /\ lastEvent' = [lastEvent EXCEPT ![c] = NoEvent]
    /\ connects' = [connects EXCEPT ![c] = 0]
    /\ flushed' = [flushed EXCEPT ![c] = 0]
    /\ nframes' = [nframes EXCEPT ![c] = 0]
    /\ lastFrame' = [lastFrame EXCEPT ![c] = NoFrame]
    /\ nevents' = [nevents EXCEPT ![c] = 0]
    /\ emitted' = [emitted EXCEPT ![c] = <<>>]
    /\ delivered' = [delivered EXCEPT ![c] = <<>>]
    /\ UNCHANGED <<now, ipSessions, liveAvailable, sanitizer, player, tutor, codec>>

\* The init branch without its initDone guard.
OnInit_NoInitDoneGuard(c, msg) ==
    /\ msg.language # "" /\ msg.context # <<>>
    /\ checkLiveRateLimit(ipSessions, clientIp[c], now) = "allowed"
    /\ validateLiveInit(msg.language, msg.context) = "ok"
    /\ ipSessions' = checkLiveRateLimitTable(ipSessions, clientIp[c], now)
    /\ initDone' = [initDone EXCEPT ![c] = TRUE]
    /\ upstream' = [upstream EXCEPT ![c] = "connecting"]
    /\ connects' = [connects EXCEPT ![c] = @ + 1]
    /\ NoSend
    /\ UNCHANGED <<now, conn, clientIp, session, sessionDurationTimer,
                   pending, relayed, nsent, flushed, liveAvailable, sanitizer, player, tutor, codec,
                   emitted, delivered>>

\* The handler returns without touching the connection or answering.
Ignored == NoSend /\ UNCHANGED <<now, ipSessions, conn, clientIp, session,
                                 initDone, sessionDurationTimer, pending,
                                 upstream, relayed, nsent, connects, flushed,
                                 liveAvailable, sanitizer, player, tutor, codec, emitted, delivered>>

\* The init branch setting initDone before the admission check and the
\* validation.
OnInit_ConsumedByRefusal(c, msg) ==
    IF initDone[c]
    THEN Ignored
    ELSE IF msg.language = "" \/ msg.context = <<>>
    THEN /\ Send(c, Error("init requires language and context"))
         /\ UNCHANGED <<now, ipSessions, conn, clientIp, session, initDone,
                        sessionDurationTimer, pending, upstream, relayed,
                        nsent, connects, flushed, liveAvailable, sanitizer,
                        player, tutor, codec, emitted, delivered>>
    ELSE LET rate == checkLiveRateLimit(ipSessions, clientIp[c], now)
             validation == validateLiveInit(msg.language, msg.context)
         IN  /\ ipSessions' =
                    checkLiveRateLimitTable(ipSessions, clientIp[c], now)
             /\ initDone' = [initDone EXCEPT ![c] = TRUE]
             /\ UNCHANGED <<now, conn, clientIp, session, sessionDurationTimer,
                            pending, relayed, nsent, flushed, liveAvailable,
                            sanitizer, player, tutor, codec, emitted,
                            delivered>>
             /\ IF rate # "allowed"
                THEN /\ Send(c, Error(rate))
                     /\ UNCHANGED <<upstream, connects>>
                ELSE IF validation # "ok"
                THEN /\ Send(c, Error(validation))
                     /\ UNCHANGED <<upstream, connects>>
                ELSE IF ~liveAvailable
                THEN /\ Send(c, Error("Live API not available"))
                     /\ UNCHANGED <<upstream, connects>>
                ELSE /\ upstream' = [upstream EXCEPT ![c] = "connecting"]
                     /\ connects' = [connects EXCEPT ![c] = @ + 1]
                     /\ NoSend

\* The init branch of clientWs.on('message').  getAI() is taken to succeed
\* (the API key is configured; without it the handler throws).
OnInit(c, msg) ==
    IF initDone[c]
    THEN Ignored
    ELSE IF msg.language = "" \/ msg.context = <<>>
    THEN /\ Send(c, Error("init requires language and context"))
         /\ UNCHANGED <<now, ipSessions, conn, clientIp, session, initDone,
                        sessionDurationTimer, pending, upstream, relayed,
                        nsent, connects, flushed, liveAvailable, sanitizer, player, tutor, codec,
                        emitted, delivered>>
    ELSE LET rate == checkLiveRateLimit(ipSessions, clientIp[c], now)
             validation == validateLiveInit(msg.language, msg.context)
         IN  /\ ipSessions' =
                    checkLiveRateLimitTable(ipSessions, clientIp[c], now)
             /\ UNCHANGED <<now, conn, clientIp, session, sessionDurationTimer,
                            pending, relayed, nsent, flushed, liveAvailable, sanitizer, player, tutor, codec,
                            emitted, delivered>>
             /\ IF rate # "allowed"
                THEN /\ Send(c, Error(rate))
                     /\ UNCHANGED <<initDone, upstream, connects>>
                ELSE IF validation # "ok"
                THEN /\ Send(c, Error(validation))
                     /\ UNCHANGED <<initDone, upstream, connects>>
                ELSE /\ initDone' = [initDone EXCEPT ![c] = TRUE]
                     /\ IF ~liveAvailable
                        THEN /\ Send(c, Error("Live API not available"))
                             /\ UNCHANGED <<upstream, connects>>
                        ELSE /\ upstream' =
                                    [upstream EXCEPT ![c] = "connecting"]
                             /\ connects' = [connects EXCEPT ![c] = @ + 1]
                             /\ NoSend

\* The realtime and content branches of clientWs.on('message').
OnData(c, msg) ==
    /\ nsent' = [nsent EXCEPT ![c] = @ + 1]
    /\ LET m == [id |-> nsent[c] + 1, type |-> msg.type]
       IN  IF session[c]
           THEN /\ relayed' = [relayed EXCEPT ![c] = Deliver(c, @, m)]
                /\ UNCHANGED pending
           ELSE /\ pending' = [pending EXCEPT ![c] = Append(@, m)]
                /\ UNCHANGED relayed
    /\ NoSend
    /\ UNCHANGED <<now, ipSessions, conn, clientIp, session, initDone,
                   sessionDurationTimer, upstream, connects, flushed,
                   liveAvailable, sanitizer, player, tutor, codec, emitted, delivered>>

\* The client of c sends the frame msg (counted on the traced connection).
Received(c, msg) ==
    IF c \in TracedConns
    THEN /\ nframes[c] < MaxFrames
         /\ nframes' = [nframes EXCEPT ![c] = @ + 1]
         /\ lastFrame' = [lastFrame EXCEPT ![c] =
                [type |-> msg.type, audio |-> msg.audio, turns |-> msg.turns]]
    ELSE UNCHANGED <<nframes, lastFrame>>

\* msg.type on a null msg throws a TypeError that no handler catches, and
\* no uncaughtException listener is installed: Node ends the process.  Every
\* socket of the process closes and its memory, the rate table included, is
\* gone; none of its close handlers runs.
Crash ==
    /\ conn' = [d \in Conns |-> IF conn[d] = "open" THEN "closed" ELSE conn[d]]
    /\ upstream' = [d \in Conns |->
           IF upstream[d] \in {"connecting", "open", "errored"}
           THEN "closed" ELSE upstream[d]]
    /\ sessionDurationTimer' = [d \in Conns |-> {}]
    /\ ipSessions' = << >>
    /\ NoSend
    /\ UNCHANGED <<now, clientIp, session, initDone, pending, relayed, nsent,
                   connects, flushed, liveAvailable, sanitizer, player, tutor, codec, emitted, delivered>>

\* clientWs.on('message', data)
OnMessage(c, msg) ==
    /\ conn[c] = "open"
    /\ Received(c, msg)
    /\ IF msg.type = "unparsable" THEN Ignored
       ELSE IF msg.type = "null" THEN Crash
       ELSE IF msg.type = "init" THEN OnInit(c, msg)
       ELSE IF IsData(msg) THEN nsent[c] < MaxMsgs /\ OnData(c, msg)
       ELSE Ignored

\* The handshake continuation with a flushPending that leaves the queue as
\* it is (no `pending.length = 0`).
UpstreamOpen_KeepsQueue(c) ==
    /\ upstream[c] = "connecting"
    /\ upstream' = [upstream EXCEPT ![c] = "open"]
    /\ ipSessions' = recordSessionStart(ipSessions, clientIp[c], now)
    /\ sessionDurationTimer' =
           [sessionDurationTimer EXCEPT ![c] = {now + SESSION_MAX_DURATION_MS}]
    /\ Send(c, Event("open"))
    /\ session' = [session EXCEPT ![c] = TRUE]
    /\ relayed' = [relayed EXCEPT ![c] = @ \o flushPending(pending[c])]
    /\ flushed' = [flushed EXCEPT ![c] = Len(flushPending(pending[c]))]
    /\ UNCHANGED <<now, conn, clientIp, initDone, nsent, connects, pending,
                   liveAvailable, sanitizer, player, tutor, codec, nframes,
                   lastFrame, emitted, delivered>>

\* The upstream handshake succeeds: the onopen callback, then the
\* continuation of the connect promise (.then).  @google/genai resolves the
\* promise inside its socket-open handler right after calling onopen, so no
\* other callback of the gateway runs between the two.
UpstreamOpen(c) ==
    /\ upstream[c] = "connecting"
    /\ upstream' = [upstream EXCEPT ![c] = "open"]
    \* onopen
    /\ ipSessions' = recordSessionStart(ipSessions, clientIp[c], now)
    /\ sessionDurationTimer' =
           [sessionDurationTimer EXCEPT ![c] = {now + SESSION_MAX_DURATION_MS}]
    /\ Send(c, Event("open"))
    \* .then
    /\ session' = [session EXCEPT ![c] = TRUE]
    /\ relayed' = [relayed EXCEPT ![c] = @ \o flushPending(pending[c])]
    /\ flushed' = [flushed EXCEPT ![c] = Len(flushPending(pending[c]))]
    /\ pending' = [pending EXCEPT ![c] = <<>>]
    /\ UNCHANGED <<now, conn, clientIp, initDone, nsent, connects,
                   liveAvailable, sanitizer, player, tutor, codec, nframes, lastFrame, emitted, delivered>>

\* The upstream handshake fails with the error _e: .catch
ConnectReject(c, e) ==
    /\ upstream[c] = "connecting"
    /\ e \in ErrorDetails
    /\ upstream' = [upstream EXCEPT ![c] = "failed"]
    /\ Send(c, Error("Connection failed"))
    /\ UNCHANGED <<now, ipSessions, conn, clientIp, session, initDone,
                   sessionDurationTimer, pending, relayed, nsent, connects,
                   flushed, liveAvailable, sanitizer, player, tutor, codec, nframes, lastFrame, emitted,
                   delivered>>

\* JSON.stringify(message): the JSON text of the message object, which the
\* SDK built by parsing the provider's JSON frame; the text is named by the
\* payload it encodes.
Stringify(message) == <<"json", message>>

\* The client reads a frame it was sent: JSON.parse.
Parse(text) == text[2]

\* The traced client receives the frame text: delivered while its socket is
\* open.
Forward(c, log, text) ==
    IF conn[c] = "open" THEN Append(log, Parse(text)) ELSE log

\* callbacks.onmessage with every payload sent twice.
UpstreamMessage_Twice(c, message) ==
    /\ upstream[c] = "open"
    /\ c \in TracedConns
    /\ Len(emitted[c]) < MaxPayloads
    /\ emitted' = [emitted EXCEPT ![c] = Append(@, message)]
    /\ delivered' = [delivered EXCEPT ![c] =
           Forward(c, Forward(c, @, Stringify(message)), Stringify(message))]
    /\ Send(c, Event("message"))
    /\ UNCHANGED <<now, ipSessions, conn, clientIp, session, initDone,
                   sessionDurationTimer, pending, upstream, relayed, nsent,
                   connects, flushed, liveAvailable, sanitizer, player, tutor, codec, nframes, lastFrame>>

\* callbacks.onmessage: the provider emits the payload message
UpstreamMessage(c, message) ==
    /\ upstream[c] = "open"
    /\ IF c \in TracedConns
       THEN /\ Len(emitted[c]) < MaxPayloads
            /\ emitted' = [emitted EXCEPT ![c] = Append(@, message)]
            /\ delivered' = [delivered EXCEPT ![c] =
                   Forward(c, @, Stringify(message))]
       ELSE UNCHANGED <<emitted, delivered>>
    /\ Send(c, Event("message"))
    /\ UNCHANGED <<now, ipSessions, conn, clientIp, session, initDone,
                   sessionDurationTimer, pending, upstream, relayed, nsent,
                   connects, flushed, liveAvailable, sanitizer, player, tutor, codec, nframes, lastFrame>>

\* callbacks.onerror that passes the provider's error text on to the client.
UpstreamError_LeaksDetail(c, e) ==
    /\ upstream[c] = "open"
    /\ e \in ErrorDetails
    /\ upstream' = [upstream EXCEPT ![c] = "errored"]
    /\ Send(c, Error(e))
    /\ UNCHANGED <<now, ipSessions, conn, clientIp, session, initDone,
                   sessionDurationTimer, pending, relayed, nsent, connects,
                   flushed, liveAvailable, sanitizer, player, tutor, codec, nframes, lastFrame, emitted,
                   delivered>>

\* callbacks.onerror: the provider socket fails mid-session with the error e
\* (the callback takes no argument)
UpstreamError(c, e) ==
    /\ upstream[c] = "open"
    /\ e \in ErrorDetails
    /\ upstream' = [upstream EXCEPT ![c] = "errored"]
    /\ Send(c, Error("Connection error"))
    /\ UNCHANGED <<now, ipSessions, conn, clientIp, session, initDone,
                   sessionDurationTimer, pending, relayed, nsent, connects,
                   flushed, liveAvailable, sanitizer, player, tutor, codec, nframes, lastFrame, emitted,
                   delivered>>

\* callbacks.onclose: the provider closes the upstream
UpstreamClose(c) ==
    /\ upstream[c] \in {"open", "errored"}
    /\ upstream' = [upstream EXCEPT ![c] = "closed"]
    /\ Send(c, Event("close"))
    /\ UNCHANGED <<now, ipSessions, conn, clientIp, session, initDone,
                   sessionDurationTimer, pending, relayed, nsent, connects,
                   flushed, liveAvailable, sanitizer, player, tutor, codec, nframes, lastFrame, emitted,
                   delivered>>

\* session.close(): the provider socket is closed if it is not already.  (An
\* onclose callback delivered for this close would only send a second close
\* frame to the client.)
CloseUpstream(c) ==
    IF session[c] /\ upstream[c] \in {"open", "errored"}
    THEN [upstream EXCEPT ![c] = "closed"]
    ELSE upstream

\* The timer callback without session.close().
TimerFire_KeepsUpstream(c) ==
    /\ sessionDurationTimer[c] # {}
    /\ \A d \in sessionDurationTimer[c] : now >= d
    /\ sessionDurationTimer' = [sessionDurationTimer EXCEPT ![c] = {}]
    /\ session' = [session EXCEPT ![c] = FALSE]
    /\ ipSessions' = recordSessionEnd(ipSessions, clientIp[c])
    /\ Send(c, Event("close"))
    /\ UNCHANGED <<now, conn, clientIp, initDone, pending, upstream, relayed,
                   nsent, connects, flushed, liveAvailable, sanitizer, player, tutor, codec, nframes,
                   lastFrame, emitted, delivered>>

\* The callback of sessionDurationTimer.
TimerFire(c) ==
    /\ sessionDurationTimer[c] # {}
    /\ \A d \in sessionDurationTimer[c] : now >= d
    /\ sessionDurationTimer' = [sessionDurationTimer EXCEPT ![c] = {}]
    /\ upstream' = CloseUpstream(c)
    /\ session' = [session EXCEPT ![c] = FALSE]
    /\ ipSessions' = recordSessionEnd(ipSessions, clientIp[c])
    /\ Send(c, Event("close"))
    /\ UNCHANGED <<now, conn, clientIp, initDone, pending, relayed, nsent,
                   connects, flushed, liveAvailable, sanitizer, player, tutor, codec, nframes, lastFrame,
                   emitted, delivered>>

\* clientWs.on('close')
ClientClose(c) ==
    /\ conn[c] = "open"
    /\ conn' = [conn EXCEPT ![c] = "closed"]
    /\ sessionDurationTimer' = [sessionDurationTimer EXCEPT ![c] = {}]
    /\ ipSessions' = recordSessionEnd(ipSessions, clientIp[c])
    /\ upstream' = CloseUpstream(c)
    /\ NoSend
    /\ UNCHANGED <<now, clientIp, session, initDone, pending, relayed, nsent,
                   connects, flushed, liveAvailable, sanitizer, player, tutor, codec, nframes, lastFrame,
                   emitted, delivered>>

\* Time passing with an idle timeout: a session that has relayed nothing is
\* closed.
Tick_IdleTimeout ==
    /\ now < MaxTime
    /\ \A c \in Conns : \A d \in sessionDurationTimer[c] : now < d
    /\ now' = now + 1
    /\ upstream' = [c \in Conns |->
           IF upstream[c] = "open" /\ relayed[c] = <<>>
           THEN "closed" ELSE upstream[c]]
    /\ NoSend
    /\ UNCHANGED <<ipSessions, conn, clientIp, session, initDone,
                   sessionDurationTimer, pending, relayed, nsent,
                   connects, flushed, liveAvailable, sanitizer, player, tutor, codec,
                   nframes, lastFrame, emitted, delivered>>

\* Time passes.  A due timer fires before the clock moves on.
Tick ==
    /\ now < MaxTime
    /\ \A c \in Conns : \A d \in sessionDurationTimer[c] : now < d
    /\ now' = now + 1
    /\ NoSend
    /\ UNCHANGED <<ipSessions, conn, clientIp, session, initDone,
                   sessionDurationTimer, pending, upstream, relayed, nsent,
                   connects, flushed, liveAvailable, sanitizer, player, tutor, codec, nframes, lastFrame,
                   emitted, delivered>>

\* The gateway serving the connection slots CS whose clients send the frames
\* FS.
NextOn(CS, FS) ==
    \/ \E c \in CS, ip \in IPs : Connect(c, ip)
    \/ \E c \in CS, msg \in FS : OnMessage(c, msg)
    \/ \E c \in CS : UpstreamOpen(c)
    \/ \E c \in CS, e \in ErrorDetails : ConnectReject(c, e)
    \/ \E c \in CS, message \in Payloads : UpstreamMessage(c, message)
    \/ \E c \in CS, e \in ErrorDetails : UpstreamError(c, e)
    \/ \E c \in CS : UpstreamClose(c)
    \/ \E c \in CS : TimerFire(c)
    \/ \E c \in CS : ClientClose(c)
    \/ Tick

\* Admission and session lifecycle: the admission slots and the frames of
\* AdmissionFrames.
Next == NextOn(AdmissionConns, AdmissionFrames)

Spec == Init /\ [][Next]_vars

\* Relay: the connections of RelayConns, clients that send every kind of
\* frame.
NextRelay == NextOn(RelayConns, Frames)

SpecRelay == Init /\ [][NextRelay]_vars

\* The traced connection, a client that sends every kind of frame and a
\* provider whose payloads are logged.
NextTrace == NextOn(TracedConns, TraceFrames)

SpecTrace == Init /\ [][NextTrace]_vars

\* ------------------------------------------------------------- sanitizer
\* The characters context strings are made of: a letter, a space, a tab
\* (whitespace and control character), NUL (control character only).
Alphabet == {97, 32, 9, 0}

Strings(n) == UNION {[1..k -> Alphabet] : k \in 0..n}

\* k letters.
Pad(k) == [i \in 1..k |-> 97]

\* Context strings: up to MaxTail characters, alone or after enough letters
\* to reach CONTEXT_MAX_LENGTH.
Contexts ==
    {Pad(k) \o t : k \in {0, CONTEXT_MAX_LENGTH - 1, CONTEXT_MAX_LENGTH},
                   t \in Strings(MaxTail)}

InitSanitize ==
    /\ ServerIdle /\ PlayerIdle /\ TutorIdle /\ CodecIdle
    /\ rawContext \in Contexts
    /\ sanitized = <<>>
    /\ resanitized = <<>>
    /\ handed = <<>>

\* sanitizeContext(raw)
Sanitize ==
    /\ sanitized = <<>>
    /\ sanitized' = <<sanitizeContext(rawContext)>>
    /\ UNCHANGED <<rawContext, resanitized, handed, server, player, tutor, codec>>

\* sanitizeContext applied to its own result
SanitizeAgain ==
    /\ sanitized # <<>> /\ resanitized = <<>>
    /\ resanitized' = <<sanitizeContext(sanitized[1])>>
    /\ UNCHANGED <<rawContext, sanitized, handed, server, player, tutor, codec>>

\* validateLiveInit(language, context) of an init in an allowed language
\* passes, and its context goes into the system instruction of the upstream.
ValidateInit ==
    /\ handed = <<>>
    /\ rawContext # <<>>
    /\ validateLiveInit("Spanish", rawContext) = "ok"
    /\ handed' = <<validatedContext("Spanish", rawContext)>>
    /\ UNCHANGED <<rawContext, sanitized, resanitized, server, player, tutor, codec>>

NextSanitize == Sanitize \/ SanitizeAgain \/ ValidateInit

SpecSanitize == InitSanitize /\ [][NextSanitize]_vars

\* ------------------------------------------------------ playback scheduler
\* LiveTutor (LingoMascot.tsx).  A buffer is named by its arrival number:
\* duration[id] is its length.  A continuation is a handler parked at an
\* await or a .then callback: pc says where it resumes, parts are the audio
\* parts of its message still to be played (the first is the one in hand),
\* interrupted is serverContent.interrupted of its message and last is the
\* number of buffers that had arrived when the message had.  Parts without
\* audio are skipped by the loops (continue) and are left out.
Max(a, b) == IF a >= b THEN a ELSE b
Min(a, b) == IF a <= b THEN a ELSE b

Durations == 1..MaxDuration

Frame(pc, parts, interrupted, last) ==
    [pc |-> pc, parts |-> parts, interrupted |-> interrupted, last |-> last]

\* The component after the effect has created outputAudioCtx and asked it to
\* resume (lines 413-422): the path is chosen by the presence of a client
\* key, and the context is suspended until the browser lets it run.
InitPlayback ==
    /\ ServerIdle /\ SanitizerIdle /\ TutorIdle /\ CodecIdle
    /\ path \in {"proxied", "direct"}
    /\ ctxState \in {"suspended", "running"}
    /\ audioNow = 0
    /\ nextStartTime = 0
    /\ sources = {}
    /\ scheduled = <<>>
    /\ microtasks = <<>>
    /\ waiters = <<>>
    /\ duration = <<>>
    /\ interrupts = <<>>
    /\ cancelled = FALSE

\* source.start(when) called for buffer id at the audio time audioNow: the
\* record of the call.  next is nextStartTimeRef.current as the statements
\* that start the source found it; stop is the audio time of source.stop(),
\* -1 while it has not been called; cut says that the source started before
\* this one had been stopped already; after is the number of interruptions
\* processed before the call.
Started(id, when, next) ==
    [id |-> id, when |-> when, next |-> next, now |-> audioNow,
     d |-> duration[id], stop |-> -1, after |-> Len(interrupts),
     cut |-> /\ scheduled # <<>>
             /\ scheduled[Len(scheduled)].stop # -1]

\* for (const s of sourcesRef.current) s.stop()
StopAll(sch, src) ==
    [i \in DOMAIN sch |->
        IF sch[i].id \in src /\ sch[i].stop = -1
        THEN [sch[i] EXCEPT !.stop = audioNow]
        ELSE sch[i]]

\* The end of a handler: if (interrupted) { stop every live source; clear
\* the set; nextStartTimeRef.current = 0 }.  The interruption is logged
\* with the number of buffers that had arrived when its message had.
Finish(interrupted, last, next, sch, src) ==
    IF interrupted
    THEN /\ scheduled' = StopAll(sch, src)
         /\ sources' = {}
         /\ nextStartTime' = 0
         /\ interrupts' = Append(interrupts, [upTo |-> last, at |-> audioNow])
    ELSE /\ scheduled' = sch
         /\ sources' = src
         /\ nextStartTime' = next
         /\ interrupts' = interrupts

\* The direct handler at the head of its loop over parts, with the values
\* the refs have at that point and the queue mt of continuations behind it.
\* With no part left it finishes, and after the teardown it skips every
\* part (line 739).  With the context suspended it awaits
\* outputAudioCtx.resume(); otherwise it computes the start time and awaits
\* decodeAudioData, whose promise is already resolved.
TornDown == cancelled \/ ctxState = "closed"

DirectLoop(parts, interrupted, last, next, sch, src, mt) ==
    IF parts = <<>> \/ TornDown
    THEN /\ Finish(interrupted, last, next, sch, src)
         /\ microtasks' = mt
         /\ waiters' = waiters
    ELSE IF ctxState = "suspended"
    THEN /\ waiters' = Append(waiters,
                               Frame("resumed", parts, interrupted, last))
         /\ microtasks' = mt
         /\ scheduled' = sch /\ sources' = src /\ nextStartTime' = next
         /\ interrupts' = interrupts
    ELSE /\ nextStartTime' = Max(next, audioNow)
         /\ microtasks' = Append(mt, Frame("decoded", parts, interrupted, last))
         /\ waiters' = waiters
         /\ scheduled' = sch /\ sources' = src
         /\ interrupts' = interrupts

\* The handlers parked with an interruption still to process.
PendingInterrupts ==
    Len(SelectSeq(microtasks \o waiters, LAMBDA fr : fr.interrupted))

\* The handler of one server message whose audio parts have the durations
\* ds.  A message is a task: it starts when no continuation is queued.
\* Proxied (handleServerMessage): the loop queues one .then callback per
\* part and the interrupted branch runs before any of them.  Direct
\* (onmessage, an async function): the handler runs to its first await.
OnServerMessage(ds, interrupted) ==
    /\ microtasks = <<>>
    /\ ~cancelled
    /\ Len(duration) + Len(ds) <= MaxBuffers
    /\ interrupted => Len(interrupts) + PendingInterrupts < MaxInterrupts
    /\ duration' = duration \o ds
    /\ LET ids == [i \in 1..Len(ds) |-> Len(duration) + i]
           last == Len(duration) + Len(ds)
       IN  IF path = "proxied"
           THEN /\ microtasks' =
                       [i \in 1..Len(ids) |->
                           Frame("then", <<ids[i]>>, FALSE, last)]
                /\ Finish(interrupted, last, nextStartTime, scheduled,
                          sources)
                /\ waiters' = waiters
           ELSE DirectLoop(ids, interrupted, last, nextStartTime, scheduled,
                           sources, <<>>)
    /\ UNCHANGED <<path, ctxState, audioNow, cancelled, server, sanitizer,
                   tutor, codec>>

\* Proxied, lines 509-520: the .then callback of a decoded part; after the
\* teardown it returns at once.
ThenCallback(fr) ==
    LET id == fr.parts[1]
        startAt == Max(nextStartTime, audioNow)
    IN  IF TornDown
        THEN /\ microtasks' = Tail(microtasks)
             /\ UNCHANGED <<scheduled, nextStartTime, sources, waiters,
                            interrupts>>
        ELSE /\ scheduled' = Append(scheduled,
                                     Started(id, startAt, nextStartTime))
             /\ nextStartTime' = startAt + duration[id]
             /\ sources' = sources \cup {id}
             /\ microtasks' = Tail(microtasks)
             /\ UNCHANGED <<waiters, interrupts>>

\* Direct, lines 745-747: after await resume(), compute the start time and
\* await decodeAudioData; after the teardown (line 745, or the catch of a
\* rejected resume()) go round the loop instead.
AfterResume_NoCheck(fr) ==
    /\ nextStartTime' = Max(nextStartTime, audioNow)
    /\ microtasks' = Append(Tail(microtasks), [fr EXCEPT !.pc = "decoded"])
    /\ UNCHANGED <<scheduled, sources, waiters, interrupts>>

AfterResume(fr) ==
    IF TornDown
    THEN DirectLoop(Tail(fr.parts), fr.interrupted, fr.last, nextStartTime,
                    scheduled, sources, Tail(microtasks))
    ELSE /\ nextStartTime' = Max(nextStartTime, audioNow)
         /\ microtasks' = Append(Tail(microtasks),
                                 [fr EXCEPT !.pc = "decoded"])
         /\ UNCHANGED <<scheduled, sources, waiters, interrupts>>

\* Direct, lines 748-757 and on: after await decodeAudioData, start the
\* source at whatever nextStartTimeRef holds now, advance it, and go round
\* the loop.
AfterDecode(fr) ==
    LET id == fr.parts[1]
    IN  DirectLoop(Tail(fr.parts), fr.interrupted, fr.last,
                   nextStartTime + duration[id],
                   Append(scheduled,
                          Started(id, nextStartTime, nextStartTime)),
                   sources \cup {id},
                   Tail(microtasks))

\* The next continuation of the microtask queue runs to its next await.
RunMicrotask ==
    /\ microtasks # <<>>
    /\ LET fr == Head(microtasks)
       IN  IF fr.pc = "then" THEN ThenCallback(fr)
           ELSE IF fr.pc = "resumed" THEN AfterResume(fr)
           ELSE AfterDecode(fr)
    /\ UNCHANGED <<path, ctxState, audioNow, duration, cancelled, server,
                   sanitizer, tutor, codec>>

\* The browser lets the context run: its state becomes "running" and the
\* promises of the resume() calls are resolved in the order of the calls.
\* The promises of a context that was closed first are settled as well.
ResumeResolved ==
    /\ microtasks = <<>>
    /\ \/ ctxState = "suspended" /\ ctxState' = "running"
       \/ ctxState = "closed" /\ waiters # <<>> /\ ctxState' = "closed"
    /\ microtasks' = waiters
    /\ waiters' = <<>>
    /\ UNCHANGED <<path, audioNow, nextStartTime, sources, scheduled,
                   duration, interrupts, cancelled, server, sanitizer, tutor, codec>>

\* The cleanup of the effect (587-599, 835-851): cancelledRef.current = true
\* and outputAudioCtx.close().  It runs as a task of its own.
Cleanup ==
    /\ microtasks = <<>>
    /\ ~cancelled
    /\ cancelled' = TRUE
    /\ ctxState' = "closed"
    /\ UNCHANGED <<path, audioNow, nextStartTime, sources, scheduled,
                   microtasks, waiters, duration, interrupts, server,
                   sanitizer, tutor, codec>>

\* The audio clock of a running context advances.
AudioTick ==
    /\ microtasks = <<>>
    /\ ctxState = "running"
    /\ audioNow < MaxAudioTime
    /\ audioNow' = audioNow + 1
    /\ UNCHANGED <<path, ctxState, nextStartTime, sources, scheduled,
                   microtasks, waiters, duration, interrupts, cancelled,
                   server, sanitizer, tutor, codec>>

\* When a source begins to sound: start(when) with when in the past begins
\* at once.
PlayFrom(r) == Max(r.when, r.now)
\* When it falls silent: at its end, or at stop() if that came first.
PlayTo(r) ==
    IF r.stop = -1 THEN PlayFrom(r) + r.d
    ELSE Max(PlayFrom(r), Min(PlayFrom(r) + r.d, r.stop))

\* The 'ended' listener of a source that has played to its end (lines
\* 513-516, 751-754).
Ended(id) ==
    /\ microtasks = <<>>
    /\ id \in sources
    /\ \E i \in DOMAIN scheduled :
          /\ scheduled[i].id = id
          /\ PlayFrom(scheduled[i]) + scheduled[i].d <= audioNow
    /\ sources' = sources \ {id}
    /\ UNCHANGED <<path, ctxState, audioNow, nextStartTime, scheduled,
                   microtasks, waiters, duration, interrupts, cancelled,
                   server, sanitizer, tutor, codec>>

SeqsUpTo(S, n) == UNION {[1..k -> S] : k \in 0..n}

NextPlayback ==
    \/ \E ds \in SeqsUpTo(Durations, MaxParts), interrupted \in BOOLEAN :
          OnServerMessage(ds, interrupted)
    \/ RunMicrotask
    \/ ResumeResolved
    \/ AudioTick
    \/ \E id \in 1..MaxBuffers : Ended(id)
    \/ Cleanup

SpecPlayback == InitPlayback /\ [][NextPlayback]_vars

\* ---------------------------------------------------------- client session
\* The session of LiveTutor (LingoMascot.tsx 386-852).  The same events are
\* given to the component over the proxied transport and over the direct
\* one: client[p] is the component on path p.  A handler is an operator
\* from the component's state to its state after the handler has run to its
\* first await or to its end; a getUserMedia call is settled by a later
\* event, which runs the rest of the async function that made it.

\* updateStatus(newStatus)
updateStatus(cl, newStatus) ==
    [cl EXCEPT !.status = newStatus,
               !.statusLog = IF newStatus = cl.status THEN @
                             ELSE Append(@, newStatus)]

\* navigator.mediaDevices.getUserMedia({ audio: true }) called at origin.
getUserMedia(cl, origin) ==
    [cl EXCEPT !.requests = Append(@, origin),
               !.asked = Append(@, [at |-> origin, heard |-> cl.heard])]

\* createMediaStreamSource, createScriptProcessor, connect: the capture
\* pipeline runs; then updateStatus('listening').
StartCapture(cl, origin) ==
    updateStatus([cl EXCEPT !.capturing = TRUE,
                            !.captures = Append(@, [at |-> origin,
                                                    heard |-> cl.heard])],
                 "listening")

\* The effect with active = true (399-433, 602-617): the audio contexts are
\* constructed (ok says whether the constructor succeeds), then the
\* transport is created and the status becomes connecting.
StartSession(p, cl, ok) ==
    IF cl.started \/ cl.failures > 0 THEN cl
    ELSE IF ~ok
    THEN updateStatus([cl EXCEPT !.failures = @ + 1], "idle")
    ELSE updateStatus([cl EXCEPT !.started = TRUE, !.cancelled = FALSE],
                      "connecting")

\* ws.onopen (532-534): the proxied client sends its init frame.  On the
\* direct path the SDK opens the session itself.
SocketOpen(p, cl) ==
    IF ~cl.started \/ cl.opened \/ cl.sent # <<>> THEN cl
    ELSE IF p = "proxied" THEN [cl EXCEPT !.sent = Append(@, "init")]
    ELSE cl

\* The open event: ws.onmessage with type 'open' (543-569), onopen (620-645).
\* updateStatus('connecting') and getUserMedia, in either mode.
OnOpen(p, cl) ==
    IF ~cl.started \/ cl.opened \/ cl.cancelled THEN cl
    ELSE getUserMedia(updateStatus([cl EXCEPT !.opened = TRUE],
                                   "connecting"),
                      "open")

\* A message with setupComplete (440-455, 649-671): the first prompt is
\* sent.
OnSetupComplete(p, cl) ==
    IF ~cl.opened \/ cl.cancelled THEN cl
    ELSE [cl EXCEPT !.sent = Append(@, "content")]

\* The lazy microphone start of a message with audio (458-500, 675-727), up
\* to its first await: with a stream in hand the pipeline starts at once,
\* without one getUserMedia is called.
LazyMicStart(p, cl) ==
    IF cl.micStarted THEN cl
    ELSE LET c1 == [cl EXCEPT !.micStarted = TRUE]
         IN  IF c1.cancelled \/ c1.inputCtx = "closed" THEN c1
             ELSE IF ~c1.micStream THEN getUserMedia(c1, "lazy")
             ELSE StartCapture(c1, "lazy")

\* A message with one audio part (456-522, 673-761): the lazy microphone
\* start, then updateStatus('speaking') and the source joins the live set.
OnAudio(p, cl) ==
    IF ~cl.opened \/ cl.cancelled THEN cl
    ELSE LET c1 == LazyMicStart(p, [cl EXCEPT !.heard = TRUE])
         IN  [updateStatus(c1, "speaking") EXCEPT !.playing = @ + 1]

\* A message with serverContent.interrupted and no audio (523-528,
\* 763-768).
OnInterrupted(p, cl) ==
    IF ~cl.opened \/ cl.cancelled THEN cl
    ELSE updateStatus([cl EXCEPT !.playing = 0], "listening")

\* The 'ended' listener of a source (513-516, 751-754).
OnEnded(p, cl) ==
    IF cl.playing = 0 THEN cl
    ELSE IF cl.playing = 1
    THEN updateStatus([cl EXCEPT !.playing = 0], "listening")
    ELSE [cl EXCEPT !.playing = @ - 1]

\* The provider fails; keyError says whether the failure is one of the API
\* key (isKeyError, 401, 403).  Proxied: the gateway's error frame, whatever
\* the failure was (570-574).  Direct: onerror (770-784).
OnError(p, cl, keyError) ==
    IF ~cl.started THEN cl
    ELSE IF p = "proxied"
    THEN IF cl.cancelled THEN cl
         ELSE updateStatus([cl EXCEPT !.keyErrors = @ + 1, !.down = TRUE],
                           "idle")
    ELSE updateStatus([cl EXCEPT !.keyErrors =
                                     IF keyError THEN @ + 1 ELSE @,
                                 !.down = TRUE],
                      "idle")

\* The provider closes: the gateway's close frame (575-578), onclose
\* (785-790).
OnClose(p, cl) ==
    IF ~cl.started THEN cl
    ELSE IF p = "proxied" /\ cl.cancelled THEN cl
    ELSE updateStatus([cl EXCEPT !.down = TRUE], "idle")

\* micStream.getTracks().forEach(t => t.stop())
StopTracks(cl) ==
    IF cl.held = 0 THEN cl ELSE [cl EXCEPT !.streams[cl.held] = "stopped"]

\* micStream = await getUserMedia(...): the variable takes the new stream,
\* whatever it held.
Acquire(cl) ==
    [cl EXCEPT !.requests = Tail(@), !.micStream = TRUE,
               !.streams = Append(@, "live"), !.held = Len(cl.streams) + 1]

\* getUserMedia resolves with a stream: the rest of the async function that
\* called it.  At open (549-562, 626-640) the pipeline starts in score mode
\* only; in the lazy start (465-474, 684-700) it starts.
OpenMicGranted_AnyMode(p, cl) ==
    IF cl.cancelled THEN StopTracks(cl)
    ELSE IF cl.inputCtx # "closed"
    THEN StartCapture([cl EXCEPT !.micStarted = TRUE], "open")
    ELSE cl

OpenMicGranted(p, cl) ==
    IF cl.cancelled THEN StopTracks(cl)
    ELSE IF cl.mode = "score"
    THEN IF cl.inputCtx # "closed"
         THEN StartCapture([cl EXCEPT !.micStarted = TRUE], "open")
         ELSE IF p = "direct" THEN StopTracks(cl) ELSE cl
    ELSE cl

OnMicGranted(p, cl) ==
    IF cl.requests = <<>> THEN cl
    ELSE LET c1 == Acquire(cl)
         IN  IF Head(cl.requests) = "open" THEN OpenMicGranted(p, c1)
             ELSE IF c1.cancelled THEN StopTracks(c1)
             ELSE IF p = "direct" /\ c1.inputCtx = "closed"
             THEN StopTracks(c1)
             ELSE StartCapture(c1, "lazy")

\* getUserMedia rejects: the catch of the async function (495-498, 563-566,
\* 641-644, 722-725).
OnMicDenied_Reports(p, cl) ==
    IF cl.requests = <<>> THEN cl
    ELSE updateStatus([cl EXCEPT !.requests = Tail(@),
                                 !.failures = @ + 1,
                                 !.sent = Append(@, "error")],
                      "idle")

OnMicDenied(p, cl) ==
    IF cl.requests = <<>> THEN cl
    ELSE updateStatus([cl EXCEPT !.requests = Tail(@),
                                 !.failures = @ + 1],
                      "idle")

\* scriptProcessor.onaudioprocess (469-471, 553-556, 631-634, 692-697): one
\* captured frame goes out as a realtime message.
OnAudioProcess(p, cl) ==
    IF ~cl.capturing THEN cl
    ELSE [cl EXCEPT !.sent = Append(@, "realtime")]

\* active becomes false: the cleanup of the effect (587-599, 835-851), then
\* the effect again, which sets the status to idle (387-397).
Deactivate(p, cl) ==
    IF ~cl.started \/ cl.cancelled THEN cl
    ELSE updateStatus([StopTracks(cl) EXCEPT
                           !.cancelled = TRUE, !.micStarted = FALSE,
                           !.capturing = FALSE, !.inputCtx = "closed"],
                      "idle")

\* One event, handled on both paths by the handler H.
Handled(H(_, _)) ==
    /\ nclient' = nclient + 1
    /\ client' = [p \in Paths |-> H(p, client[p])]
    /\ UNCHANGED <<server, sanitizer, player, codec>>

SessionStarts(ok) ==
    /\ nclient < MaxClientEvents
    /\ Handled(LAMBDA p, cl : StartSession(p, cl, ok))

SocketOpens == nclient < MaxClientEvents /\ Handled(SocketOpen)

ProviderOpens == nclient < MaxClientEvents /\ Handled(OnOpen)

SetupCompletes == nclient < MaxClientEvents /\ Handled(OnSetupComplete)

AudioArrives == nclient < MaxClientEvents /\ Handled(OnAudio)

ProviderInterrupts == nclient < MaxClientEvents /\ Handled(OnInterrupted)

SourceEnds == nclient < MaxClientEvents /\ Handled(OnEnded)

ProviderFails(keyError) ==
    /\ nclient < MaxClientEvents
    /\ Handled(LAMBDA p, cl : OnError(p, cl, keyError))

ProviderCloses == nclient < MaxClientEvents /\ Handled(OnClose)

MicGranted == nclient < MaxClientEvents /\ Handled(OnMicGranted)

MicDenied == nclient < MaxClientEvents /\ Handled(OnMicDenied)

AudioProcess == nclient < MaxClientEvents /\ Handled(OnAudioProcess)

Deactivated == nclient < MaxClientEvents /\ Handled(Deactivate)

\* The component is mounted in either mode.
InitClient ==
    /\ ServerIdle /\ SanitizerIdle /\ PlayerIdle /\ CodecIdle
    /\ \E mode \in {"guide", "score"} :
          client = [p \in Paths |-> Mounted(mode)]
    /\ nclient = 0

NextClient ==
    \/ \E ok \in BOOLEAN : SessionStarts(ok)
    \/ SocketOpens
    \/ ProviderOpens
    \/ SetupCompletes
    \/ AudioArrives
    \/ ProviderInterrupts
    \/ SourceEnds
    \/ \E keyError \in BOOLEAN : ProviderFails(keyError)
    \/ ProviderCloses
    \/ MicGranted
    \/ MicDenied
    \/ AudioProcess
    \/ Deactivated

SpecClient == InitClient /\ [][NextClient]_vars

\* ---------------------------------------------------------------- audio codec
\* createBlob, encode, decode and decodeAudioData (LingoMascot.tsx 347-379).
\* A float sample is written in units: the sample 1.0 is Full units, and one
\* 16-bit quantization step, 1 / 32768, is Units units.
Full == Units * PCM_SCALE

\* Math.max(lo, Math.min(hi, v))
Clamp(lo, hi, v) == IF v < lo THEN lo ELSE IF v > hi THEN hi ELSE v

\* Math.round(n / Units): the nearest integer, a half going up.
Round(n) == (2 * n + Units) \div (2 * Units)

\* The store into an Int16Array element: the value modulo 2^16, as a signed
\* 16-bit integer.
ToInt16(v) == ((v + 32768) % 65536) - 32768

\* The loop of createBlob (373-377) for one sample.
Quantize_NoClamp(n) == ToInt16(Round(Clamp(-Full, Full, n)))

Quantize(n) ==
    ToInt16(Clamp(-32768, 32767, Round(Clamp(-Full, Full, n))))

\* new Uint8Array(int16.buffer): two bytes a sample, the low byte first.
Bytes(int16) ==
    [k \in 1..(2 * Len(int16)) |->
        LET u == int16[(k + 1) \div 2] % 65536
        IN  IF k % 2 = 1 THEN u % 256 ELSE u \div 256]

\* new Int16Array(data.buffer), line 356.
Int16Array_Unsigned(bytes) ==
    [i \in 1..(Len(bytes) \div 2) |-> bytes[2 * i - 1] + 256 * bytes[2 * i]]

Int16Array(bytes) ==
    [i \in 1..(Len(bytes) \div 2) |->
        LET u == bytes[2 * i - 1] + 256 * bytes[2 * i]
        IN  IF u >= 32768 THEN u - 65536 ELSE u]

\* encode (366-370): btoa of the bytes.  A base64 character is written as
\* its 6-bit value, the padding character '=' as 64.
RECURSIVE encode(_)
encode(bytes) ==
    IF bytes = <<>> THEN <<>>
    ELSE IF Len(bytes) = 1
    THEN <<bytes[1] \div 4, (bytes[1] % 4) * 16, 64, 64>>
    ELSE IF Len(bytes) = 2
    THEN <<bytes[1] \div 4,
           (bytes[1] % 4) * 16 + bytes[2] \div 16,
           (bytes[2] % 16) * 4,
           64>>
    ELSE <<bytes[1] \div 4,
           (bytes[1] % 4) * 16 + bytes[2] \div 16,
           (bytes[2] % 16) * 4 + bytes[3] \div 64,
           bytes[3] % 64>> \o encode(SubSeq(bytes, 4, Len(bytes)))

\* decode (347-353): atob of the text.
RECURSIVE decode(_)
decode(base64) ==
    IF base64 = <<>> THEN <<>>
    ELSE LET b1 == base64[1] * 4 + base64[2] \div 16
             b2 == (base64[2] % 16) * 16 + base64[3] \div 4
             b3 == (base64[3] % 4) * 64 + base64[4]
         IN  IF base64[3] = 64 THEN <<b1>>
             ELSE IF base64[4] = 64 THEN <<b1, b2>>
             ELSE <<b1, b2, b3>> \o decode(SubSeq(base64, 5, Len(base64)))

\* createBlob(data).data
createBlob(data) ==
    encode(Bytes([i \in 1..Len(data) |-> Quantize(data[i])]))

\* decodeAudioData(data, ctx, sampleRate, 1): channelData[i] =
\* dataInt16[i] / 32768.0, that is dataInt16[i] steps.
decodeAudioData(int16) == [i \in 1..Len(int16) |-> int16[i] * Units]

\* Samples at and around the ends of [-1, 1], around zero and around the
\* half steps, inside the range and outside it.
SampleValues ==
    {-2 * Full, -Full - 1, -Full, -Full + 1, -Full + Units \div 2,
     -Full + Units, -20000 * Units - 1, -Units, -(Units \div 2) - 1,
     -(Units \div 2), -1, 0, 1, Units \div 2, Units \div 2 + 1, Units,
     12345 * Units + 1, Full - Units, Full - Units \div 2,
     Full - Units \div 2 - 1, Full - 1, Full, Full + 1, 2 * Full}

InitCodec ==
    /\ ServerIdle /\ SanitizerIdle /\ PlayerIdle /\ TutorIdle
    /\ samples \in SeqsUpTo(SampleValues, MaxSamples)
    /\ blob = <<>>
    /\ pcm = <<>>
    /\ channelData = <<>>

\* A captured frame is encoded for the wire.
CreateBlob ==
    /\ blob = <<>>
    /\ blob' = <<createBlob(samples)>>
    /\ UNCHANGED <<samples, pcm, channelData, server, sanitizer, player,
                   tutor>>

\* The text is decoded to bytes and the bytes are read as 16-bit samples.
DecodeBlob ==
    /\ blob # <<>> /\ pcm = <<>>
    /\ pcm' = <<Int16Array(decode(blob[1]))>>
    /\ UNCHANGED <<samples, blob, channelData, server, sanitizer, player,
                   tutor>>

\* The 16-bit samples are scaled back to floats.
DecodeAudioData ==
    /\ pcm # <<>> /\ channelData = <<>>
    /\ channelData' = <<decodeAudioData(pcm[1])>>
    /\ UNCHANGED <<samples, blob, pcm, server, sanitizer, player, tutor>>

NextCodec == CreateBlob \/ DecodeBlob \/ DecodeAudioData

SpecCodec == InitCodec /\ [][NextCodec]_vars

\* ================================================================ claims
Ids(q) == [i \in 1..Len(q) |-> q[i].id]
Iota(n) == [i \in 1..n |-> i]

\* The upstream handshake of the connection has resolved.
HandshakeResolved(c) == upstream[c] \in {"open", "errored", "closed"}

\* The step is the resolution of the upstream handshake of c.
HandshakeStep(c) == upstream[c] = "connecting" /\ upstream'[c] = "open"

C1_State ==
    \A c \in Conns :
        /\ Ids(relayed[c]) = Iota(Len(relayed[c]))
        /\ ~HandshakeResolved(c) =>
               relayed[c] = <<>> /\ Ids(pending[c]) = Iota(nsent[c])
        /\ HandshakeResolved(c) => flushed[c] <= Len(relayed[c])

C1_Step ==
    \A c \in Conns :
        HandshakeStep(c) =>
            /\ relayed'[c] = pending[c]
            /\ pending'[c] = <<>>
            /\ flushed'[c] = Len(pending[c])

\* C1: every realtime/content message received before the upstream handshake
\* resolves is queued in arrival order; the handshake step relays exactly the
\* queued messages, once each and in that order, ahead of every later
\* message; what the upstream has received is always the first messages the
\* client sent, in send order.
C1_QueueThenFlush == []C1_State /\ [][C1_Step]_vars

\* Two queued messages of different kinds were flushed by the handshake.
C1_Witness ==
    \E c \in Conns :
        /\ flushed[c] = 2
        /\ Len(relayed[c]) = 2
        /\ relayed[c][1].type # relayed[c][2].type

\* C2: a connection starts at most one upstream provider session, whatever
\* frames its client sends: ai.live.connect is called at most once, and only
\* by the init that set initDone.
C2_AtMostOneUpstream ==
    \A c \in Conns :
        /\ connects[c] <= 1
        /\ connects[c] = 1 => initDone[c]

\* An init was accepted, its upstream is open, and the client can still send
\* init frames.
C2_Witness ==
    \E c \in Conns :
        initDone[c] /\ connects[c] = 1 /\ upstream[c] = "open" /\ conn[c] = "open"

\* The connections of ip whose upstream session is open.
OpenSessions(ip) ==
    {c \in Conns : conn[c] # "none" /\ clientIp[c] = ip /\ upstream[c] = "open"}

\* C3: the upstream sessions of one IP that are open at the same time never
\* outnumber MAX_CONCURRENT_SESSIONS_PER_IP.
C3_ConcurrencyBound ==
    \A ip \in IPs :
        Cardinality(OpenSessions(ip)) <= MAX_CONCURRENT_SESSIONS_PER_IP

\* The step ends the upstream session of c.
SessionEndStep(c) ==
    upstream[c] \in {"open", "errored"} /\ upstream'[c] = "closed"

\* C4: the concurrency count of an IP changes only when a session of one of
\* its connections starts (by +1) or when a started session of one of them
\* ends (by -1); no other step (a refused init, the disconnect of a
\* connection without a session) changes it.
C4_CountOnlyOnStartEnd ==
    [][\A ip \in IPs :
          Count(ip)' # Count(ip) =>
              \E c \in Conns :
                  /\ clientIp[c] = ip
                  /\ \/ HandshakeStep(c) /\ Count(ip)' = Count(ip) + 1
                     \/ SessionEndStep(c) /\ Count(ip)' = Count(ip) - 1]_vars

\* The duration timer of c has fired: only its callback resets session, and
\* the upstream is closed only after it was open.
TimerExpired(c) == upstream[c] = "closed" /\ ~session[c]

\* C5: once the duration timer has cleaned a session up, the disconnect of
\* its client (a second terminal event) changes neither the rate table nor
\* any upstream session.
C5_CleanupIdempotent ==
    [][\A c \in Conns :
          TimerExpired(c) /\ conn[c] = "open" /\ conn'[c] = "closed" =>
              ipSessions' = ipSessions /\ upstream' = upstream]_vars

\* C6: a connection whose client has gone has no open upstream session and
\* no armed duration timer.
C6_NothingOutlivesClient ==
    \A c \in Conns :
        conn[c] = "closed" =>
            /\ upstream[c] \notin {"open", "errored"}
            /\ sessionDurationTimer[c] = {}

\* The provider ends or fails the open upstream of c (the step is neither
\* the timer callback, which resets session, nor the client's disconnect).
ProviderEndStep(c) ==
    /\ upstream[c] = "open"
    /\ upstream'[c] \in {"errored", "closed"}
    /\ session'[c] = session[c]
    /\ conn'[c] = conn[c]

\* C7: when the provider closes the upstream or reports an error, that step
\* clears the duration timer and releases the count of the IP.
C7_ProviderEndCleansUp ==
    [][\A c \in Conns :
          ProviderEndStep(c) =>
              /\ sessionDurationTimer'[c] = {}
              /\ Count(clientIp[c])' =
                     IF Count(clientIp[c]) > 0 THEN Count(clientIp[c]) - 1 ELSE 0]_vars

\* The step is the callback of the duration timer of c (the only other step
\* that disarms an armed timer is the client's disconnect).
TimerFireStep(c) ==
    /\ sessionDurationTimer[c] # {}
    /\ sessionDurationTimer'[c] = {}
    /\ conn'[c] = conn[c]

\* An open upstream has an armed timer that is not overdue.
C8_State ==
    \A c \in Conns :
        upstream[c] = "open" =>
            /\ sessionDurationTimer[c] # {}
            /\ \A d \in sessionDurationTimer[c] : now <= d

C8_Step ==
    \A c \in Conns :
        \* the timer is armed by the upstream open, for the ceiling, and is
        \* afterwards only disarmed
        /\ sessionDurationTimer'[c] # sessionDurationTimer[c] =>
               \/ sessionDurationTimer'[c] = {}
               \/ /\ HandshakeStep(c)
                  /\ sessionDurationTimer'[c] = {now + SESSION_MAX_DURATION_MS}
        \* what the expiry does
        /\ TimerFireStep(c) =>
               /\ sessionDurationTimer[c] = {now}
               /\ upstream'[c] \notin {"open", "errored"}
               /\ ~session'[c]
               /\ Count(clientIp[c])' =
                      IF Count(clientIp[c]) > 0 THEN Count(clientIp[c]) - 1 ELSE 0
               /\ (c \in Observed /\ conn[c] = "open") =>
                      lastEvent'[c] = Event("close")

\* C8: the duration timer is armed at upstream open for
\* SESSION_MAX_DURATION_MS and no later step re-arms or moves it; an open
\* upstream always has its timer armed and not overdue; the expiry closes
\* the upstream, drops the handle, releases the count of the IP and sends
\* close to the client.
C8_DurationCap == []C8_State /\ [][C8_Step]_vars

\* The timer expired on a session that had relayed client messages; the
\* client got close and the count is back to zero.
C8_Witness ==
    \E c \in Conns :
        /\ TimerExpired(c)
        /\ conn[c] = "open"
        /\ lastEvent[c] = Event("close")
        /\ Len(relayed[c]) >= 1
        /\ Count(clientIp[c]) = 0

\* The start timestamps of ip that lie within the trailing hour.
RecentStarts(ip) ==
    Len(SelectSeq(Entry(ipSessions, ip).timestamps,
                  LAMBDA x : x > now - HOUR_MS))

\* The connections of ip whose upstream session has started and not ended.
UnendedSessions(ip) ==
    {c \in Conns : /\ conn[c] # "none"
                   /\ clientIp[c] = ip
                   /\ upstream[c] \in {"open", "errored"}}

\* C9: while MAX_CONCURRENT_SESSIONS_PER_IP sessions of an IP are open the
\* admission check refuses an init of that IP, and once fewer are open (and
\* the hourly allowance is not used up) it admits one.
C9_ConcurrencyLimit ==
    \A ip \in IPs :
        /\ Cardinality(OpenSessions(ip)) >= MAX_CONCURRENT_SESSIONS_PER_IP =>
               checkLiveRateLimit(ipSessions, ip, now) # "allowed"
        /\ ( /\ Cardinality(UnendedSessions(ip)) < MAX_CONCURRENT_SESSIONS_PER_IP
             /\ RecentStarts(ip) < MAX_SESSIONS_PER_IP_PER_HOUR ) =>
               checkLiveRateLimit(ipSessions, ip, now) = "allowed"

\* The step accepts an init of c.
InitAcceptedStep(c) == ~initDone[c] /\ initDone'[c]

\* The verdict of the admission check on the current table.
C10_State ==
    \A ip \in IPs :
        LET verdict == checkLiveRateLimit(ipSessions, ip, now)
        IN  /\ RecentStarts(ip) >= MAX_SESSIONS_PER_IP_PER_HOUR =>
                   /\ verdict # "allowed"
                   /\ Count(ip) < MAX_CONCURRENT_SESSIONS_PER_IP =>
                          verdict = "Rate limit exceeded"
            /\ ( /\ RecentStarts(ip) < MAX_SESSIONS_PER_IP_PER_HOUR
                 /\ Count(ip) < MAX_CONCURRENT_SESSIONS_PER_IP ) =>
                   verdict = "allowed"

C10_Step ==
    \A c \in Conns :
        \* no init is accepted on top of M starts within the hour, and the
        \* accepting check leaves only timestamps of the trailing hour
        /\ InitAcceptedStep(c) =>
               /\ RecentStarts(clientIp[c]) < MAX_SESSIONS_PER_IP_PER_HOUR
               /\ \A i \in DOMAIN ipSessions'[clientIp[c]].timestamps :
                      ipSessions'[clientIp[c]].timestamps[i] > now - HOUR_MS
        \* what a client with no accepted init is told while the hourly
        \* allowance is used up
        /\ ( /\ c \in Observed
             /\ conn[c] = "open" /\ conn'[c] = "open"
             /\ ~initDone[c] /\ ~initDone'[c]
             /\ RecentStarts(clientIp[c]) >= MAX_SESSIONS_PER_IP_PER_HOUR
             /\ Count(clientIp[c]) < MAX_CONCURRENT_SESSIONS_PER_IP
             /\ lastEvent'[c] # lastEvent[c] ) =>
               lastEvent'[c] \in {Error("Rate limit exceeded"),
                                  Error("init requires language and context")}

InvalidInits ==
    {f \in InitFrames :
        \/ TrimLanguage(f.language) \notin ALLOWED_LANGUAGES
        \/ sanitizeContext(f.context) = <<>>}

\* The error events that report a defect of the init frame itself.
ValidationErrors ==
    {Error("Invalid language"), Error("Invalid context"),
     Error("init requires language and context")}

\* C11: an init with a language outside the allow-list or a context that
\* sanitizes to empty, sent on a connection with no accepted init, is
\* answered with a validation error event; it opens no upstream, leaves the
\* concurrency count and the start timestamps of the trailing hour as they
\* were, and leaves the connection open.
C11_InvalidInitRejected ==
    [][\A c \in Observed, msg \in InvalidInits :
          (~initDone[c] /\ OnMessage(c, msg)) =>
              /\ lastEvent'[c] \in ValidationErrors
              /\ upstream' = upstream /\ connects' = connects
              /\ ~initDone'[c]
              /\ Count(clientIp[c])' = Count(clientIp[c])
              /\ RecentStarts(clientIp[c])' = RecentStarts(clientIp[c])
              /\ conn'[c] = "open"]_vars

\* The step is the handling of an init of c that has both fields, on a
\* connection with no accepted init, which the admission check refuses.
RefusedInitStep(c) ==
    /\ conn[c] = "open" /\ conn'[c] = "open"
    /\ ~initDone[c]
    /\ now' = now
    /\ checkLiveRateLimit(ipSessions, clientIp[c], now) # "allowed"
    /\ \E msg \in InitFrames :
           msg.language # "" /\ msg.context # <<>> /\ OnMessage(c, msg)

\* C12: an init refused by the concurrency or the rolling-rate check is
\* answered with the error event that names the reason; the step opens no
\* upstream, stores no session handle, arms no timer, leaves the concurrency
\* count as it was and adds no start timestamp (it only drops those of an
\* hour ago or older).
C12_RefusedInitAllocatesNothing ==
    [][\A c \in Conns :
          RefusedInitStep(c) =>
              /\ c \in Observed =>
                     lastEvent'[c] =
                         Error(checkLiveRateLimit(ipSessions, clientIp[c], now))
              /\ upstream' = upstream /\ connects' = connects
              /\ session' = session
              /\ sessionDurationTimer' = sessionDurationTimer
              /\ ~initDone'[c]
              /\ Count(clientIp[c])' = Count(clientIp[c])
              /\ ipSessions'[clientIp[c]].timestamps =
                     SelectSeq(Entry(ipSessions, clientIp[c]).timestamps,
                               LAMBDA x : x > now - HOUR_MS)]_vars

\* A client was refused for the concurrency limit: nothing was opened for
\* it and its socket is open.
C12_Witness ==
    \E c \in Observed :
        /\ lastEvent[c] = Error("Too many concurrent sessions")
        /\ conn[c] = "open" /\ ~initDone[c]
        /\ upstream[c] = "none" /\ sessionDurationTimer[c] = {}
        /\ Count(clientIp[c]) = MAX_CONCURRENT_SESSIONS_PER_IP

\* The event is an error event.
IsError(ev) == ev # NoEvent /\ ev[1] = "error"

\* C13: an init received on a connection whose init was already accepted
\* is answered, in the step that handles it, with an error event, and the
\* connection stays open.
C13_DuplicateInitRejected ==
    [][\A c \in TracedConns, msg \in InitFrames :
          (initDone[c] /\ OnMessage(c, msg)) =>
              /\ nevents'[c] = nevents[c] + 1
              /\ IsError(lastEvent'[c])
              /\ conn'[c] = "open"]_vars

\* The step is callbacks.onmessage on the upstream of c.
PayloadStep(c) == Len(emitted'[c]) = Len(emitted[c]) + 1

\* What the client has received is what the provider emitted while the
\* client was connected: all of it, in order, while its socket is open.
C14_State ==
    \A c \in TracedConns :
        /\ Len(delivered[c]) <= Len(emitted[c])
        /\ delivered[c] = SubSeq(emitted[c], 1, Len(delivered[c]))
        /\ conn[c] = "open" => delivered[c] = emitted[c]

C14_Step ==
    \A c \in TracedConns :
        PayloadStep(c) =>
            \* one frame goes to the client, carrying the payload
            /\ conn[c] = "open" =>
                   /\ delivered'[c] =
                          Append(delivered[c], emitted'[c][Len(emitted'[c])])
                   /\ nevents'[c] = nevents[c] + 1
            \* and the gateway does nothing else with it
            /\ UNCHANGED <<ipSessions, conn, session, initDone,
                           sessionDurationTimer, pending, upstream, relayed,
                           connects>>

\* C14: on one connection every payload the provider emits is forwarded to
\* the client in the step that receives it, as one frame that decodes to the
\* same payload; the client therefore receives the payloads unmodified, once
\* each and in emission order, and the gateway changes none of its own state
\* on a payload.
C14_VerbatimRelay == []C14_State /\ [][C14_Step]_vars

\* The client received two different payloads.
C14_Witness ==
    \E c \in TracedConns :
        /\ conn[c] = "open"
        /\ delivered[c] = <<"audio", "text">>
        /\ nevents[c] = 3

\* The frames that are not JSON, or are JSON without a type of init, realtime
\* or content, or are a realtime frame without audio or a content frame
\* without turns.
MalformedFrames == JunkFrames \cup {NullFrame}

\* C15: the handling of such a frame changes nothing the gateway holds
\* (initDone, the session handle, the upstream, the pending queue, the
\* timer, the rate table), sends nothing to the client or to the upstream,
\* and leaves the connection open.
C15_JunkIgnored ==
    [][\A c \in TracedConns, msg \in MalformedFrames :
          OnMessage(c, msg) =>
              /\ UNCHANGED <<ipSessions, session, initDone,
                             sessionDurationTimer, pending, upstream,
                             connects, flushed, nsent>>
              /\ nevents'[c] = nevents[c] /\ lastEvent'[c] = lastEvent[c]
              /\ relayed'[c] = relayed[c]
              /\ conn'[c] = "open"]_vars

\* C16: what the client is sent on an upstream failure is fixed:
\* "Connection failed" when the handshake fails, "Connection error" when the
\* provider fails mid-session.  The step does not depend on the provider's
\* error: from one state, the failure with one error text and the failure
\* with another lead to the same state, client-visible events included.
C16_GenericUpstreamError ==
    [][\A c \in Conns, e \in ErrorDetails :
          /\ UpstreamError(c, e) =>
                 /\ \A e2 \in ErrorDetails : UpstreamError(c, e2)
                 /\ (c \in Observed /\ conn[c] = "open") =>
                        lastEvent'[c] = Error("Connection error")
          /\ ConnectReject(c, e) =>
                 /\ \A e2 \in ErrorDetails : ConnectReject(c, e2)
                 /\ (c \in Observed /\ conn[c] = "open") =>
                        lastEvent'[c] = Error("Connection failed")]_vars

\* The provider failed in an open session and the client, still connected,
\* was told "Connection error".
C16_Witness ==
    \E c \in Observed :
        /\ upstream[c] = "errored"
        /\ conn[c] = "open"
        /\ lastEvent[c] = Error("Connection error")

\* C17: sanitizeContext is idempotent: applied to its own result it returns
\* that result.
C17_SanitizeIdempotent ==
    (sanitized # <<>> /\ resanitized # <<>>) => resanitized[1] = sanitized[1]

\* The context has no control character, no whitespace but single spaces
\* between other characters, and at most CONTEXT_MAX_LENGTH characters.
WellFormed(ctx) ==
    /\ \A i \in DOMAIN ctx : ~IsControl(ctx[i])
    /\ \A i \in DOMAIN ctx : IsWhitespace(ctx[i]) => ctx[i] = 32
    /\ \A i \in DOMAIN ctx : i > 1 => ~(ctx[i - 1] = 32 /\ ctx[i] = 32)
    /\ ctx # <<>> => ctx[1] # 32 /\ ctx[Len(ctx)] # 32
    /\ Len(ctx) <= CONTEXT_MAX_LENGTH

\* C18: the context that passed validation and goes to the upstream has its
\* control characters stripped, its whitespace collapsed (no run of two
\* spaces, no leading or trailing space) and at most CONTEXT_MAX_LENGTH
\* characters.
C18_ContextWellFormed == handed # <<>> => WellFormed(handed[1])

\* C19: an open upstream session stops being open only when its duration
\* timer expires (at its deadline), when its client disconnects or when the
\* provider ends or fails it; the handle is dropped only by the timer; a
\* close event reaches the client only from the timer or from the provider's
\* close; and the passing of time alone changes nothing of any session.
C19_NoIdleTimeout ==
    [][\A c \in Conns :
          /\ (upstream[c] = "open" /\ upstream'[c] # "open") =>
                 \/ TimerFireStep(c) /\ sessionDurationTimer[c] = {now}
                 \/ conn[c] = "open" /\ conn'[c] = "closed"
                 \/ ProviderEndStep(c)
          \* (a new connection in the slot starts without a handle)
          /\ (session[c] /\ ~session'[c] /\ conn'[c] = conn[c]) =>
                 TimerFireStep(c) /\ sessionDurationTimer[c] = {now}
          /\ ( /\ c \in Observed
               /\ upstream[c] = "open"
               /\ lastEvent'[c] # lastEvent[c]
               /\ lastEvent'[c] = Event("close") ) =>
                 \/ TimerFireStep(c) /\ sessionDurationTimer[c] = {now}
                 \/ ProviderEndStep(c)
          /\ now' # now =>
                 /\ upstream'[c] = upstream[c] /\ session'[c] = session[c]
                 /\ sessionDurationTimer'[c] = sessionDurationTimer[c]
                 /\ lastEvent'[c] = lastEvent[c]]_vars

\* A session that relayed nothing in either direction for the whole of
\* SESSION_MAX_DURATION_MS is still open at its deadline.
C19_Witness ==
    \E c \in Observed :
        /\ upstream[c] = "open" /\ session[c] /\ conn[c] = "open"
        /\ sessionDurationTimer[c] = {now}
        /\ now >= SESSION_MAX_DURATION_MS
        /\ nsent[c] = 0 /\ relayed[c] = <<>>
        /\ lastEvent[c] = Event("open")

\* C20: buffers are started in the order they arrived, each at
\* Math.max(nextStartTime, now); the play intervals of
\* two buffers never overlap; and a buffer started while the one before it
\* is still to finish, and has not been stopped, starts exactly where that
\* one ends.
InArrivalOrder ==
    \A i, j \in DOMAIN scheduled : i < j => scheduled[i].id < scheduled[j].id

StartsAtMax ==
    \A i \in DOMAIN scheduled :
        scheduled[i].when = Max(scheduled[i].next, scheduled[i].now)

\* (a source stopped before it began never sounds)
Silent(r) == PlayTo(r) = PlayFrom(r)

NoOverlap ==
    \A i, j \in DOMAIN scheduled :
        i < j => \/ Silent(scheduled[i]) \/ Silent(scheduled[j])
                 \/ PlayTo(scheduled[i]) <= PlayFrom(scheduled[j])
                 \/ PlayTo(scheduled[j]) <= PlayFrom(scheduled[i])

Gapless ==
    \A n \in DOMAIN scheduled :
        ( /\ n + 1 \in DOMAIN scheduled
          /\ ~scheduled[n + 1].cut
          /\ scheduled[n + 1].now < scheduled[n].when + scheduled[n].d ) =>
            scheduled[n + 1].when = scheduled[n].when + scheduled[n].d

C20_GaplessPlayback ==
    InArrivalOrder /\ StartsAtMax /\ NoOverlap /\ Gapless


\* C21: the step that processes an interruption stops every source of the
\* live set and empties the set; the first source started after it starts at
\* the current audio time; and no buffer that had arrived when the
\* interruption did is started after the interruption was processed.
InterruptStopsAll ==
    [][Len(interrupts') > Len(interrupts) =>
          /\ sources' = {}
          /\ \A i \in DOMAIN scheduled' :
                scheduled'[i].stop = -1 =>
                    /\ i \in DOMAIN scheduled
                    /\ scheduled[i].id \notin sources]_vars

FreshStartAfterInterrupt ==
    \A i \in DOMAIN scheduled :
        ( /\ scheduled[i].after > 0
          /\ i > 1 => scheduled[i - 1].after < scheduled[i].after ) =>
            scheduled[i].when = scheduled[i].now

NothingStaleStarted ==
    \A i \in DOMAIN scheduled :
        \A k \in 1..scheduled[i].after :
            scheduled[i].id > interrupts[k].upTo

C21_InterruptClears ==
    /\ [](FreshStartAfterInterrupt /\ NothingStaleStarted)
    /\ InterruptStopsAll

\* C22: in guide mode every capture pipeline is started by the lazy start
\* of a message with audio, after audio has been heard, at most once, and a
\* realtime message is sent only after audio has been heard.
C22_LazyCapture ==
    \A p \in Paths :
        client[p].mode = "guide" =>
            /\ Len(client[p].captures) <= 1
            /\ \A i \in DOMAIN client[p].captures :
                  /\ client[p].captures[i].at = "lazy"
                  /\ client[p].captures[i].heard
            /\ (\E i \in DOMAIN client[p].sent :
                    client[p].sent[i] = "realtime") => client[p].heard
            /\ client[p].capturing => client[p].heard

\* A guide-mode session that started its pipeline at the first audio and
\* has sent a captured frame.
C22_Witness ==
    \E p \in Paths :
        /\ client[p].mode = "guide"
        /\ client[p].captures = <<[at |-> "lazy", heard |-> TRUE]>>
        /\ client[p].capturing
        /\ \E i \in DOMAIN client[p].sent : client[p].sent[i] = "realtime"

\* C23: in guide mode no getUserMedia call is made at the open event, the
\* first is made when audio has been heard; in score mode the first is made
\* at the open event.
C23_LazyMicPermission ==
    \A p \in Paths :
        /\ client[p].mode = "guide" =>
              \A i \in DOMAIN client[p].asked :
                  /\ client[p].asked[i].at = "lazy"
                  /\ client[p].asked[i].heard
        /\ (client[p].mode = "score" /\ client[p].opened) =>
              /\ client[p].asked # <<>>
              /\ client[p].asked[1].at = "open"

\* C24: in guide mode the status is connecting from the start of the session
\* until audio is heard (unless the session fails, closes or is deactivated
\* first), it never goes from connecting to listening, and it is listening
\* only after it has been speaking.
C24_StatusOrder ==
    \A p \in Paths :
        client[p].mode = "guide" =>
            LET log == client[p].statusLog
            IN  /\ ( /\ client[p].started /\ ~client[p].heard
                     /\ \A i \in DOMAIN log : log[i] # "idle" ) =>
                       client[p].status = "connecting"
                /\ \A i \in DOMAIN log :
                      log[i] = "listening" =>
                          /\ i > 1 /\ log[i - 1] # "connecting"
                          /\ \E j \in 1..(i - 1) : log[j] = "speaking"

\* C25: once the session is torn down no source is started and nothing
\* joins the live set.
C25_NothingAfterTeardown ==
    [][TornDown =>
          /\ Len(scheduled') = Len(scheduled)
          /\ sources' \subseteq sources]_vars

\* A buffer had arrived and its handler was waiting when the session was
\* torn down; the handler has run on since and the buffer was discarded.
C25_Witness ==
    /\ cancelled
    /\ microtasks = <<>> /\ waiters = <<>>
    /\ \E id \in DOMAIN duration :
          \A i \in DOMAIN scheduled : scheduled[i].id # id

\* C26: given the same events, the component behaves the same over the
\* proxied transport and over the direct one: the same status changes, the
\* same live set, the same capture starts and the same onKeyError calls.
C26_PathsEquivalent ==
    /\ client["proxied"].statusLog = client["direct"].statusLog
    /\ client["proxied"].playing = client["direct"].playing
    /\ client["proxied"].captures = client["direct"].captures
    /\ client["proxied"].keyErrors = client["direct"].keyErrors

\* C27: the step in which getUserMedia is refused or an AudioContext cannot
\* be constructed leaves the status idle and sends nothing.
C27_LocalFailure ==
    [][\A p \in Paths :
          client'[p].failures > client[p].failures =>
              /\ client'[p].status = "idle"
              /\ client'[p].sent = client[p].sent]_vars

\* The microphone was refused in a session that had left idle and had sent
\* its first prompt.
C27_Witness ==
    \E p \in Paths :
        /\ client[p].failures > 0
        /\ client[p].started
        /\ client[p].status = "idle"
        /\ client[p].sent # <<>>
        /\ client[p].statusLog = <<"connecting", "idle">>

\* C28: every encoded sample is a signed 16-bit value, the one nearest to
\* the sample times 32768 among -32768..32767 (the sample taken as -1 or 1
\* when it lies outside), and never of the opposite sign to the sample.
Rounds(v, m) == 2 * v * Units - Units <= 2 * m /\ 2 * m < 2 * v * Units + Units

Nearest16(v, n) ==
    LET m == IF n < -Full THEN -Full ELSE IF n > Full THEN Full ELSE n
    IN  \/ Rounds(v, m)
        \/ v = 32767 /\ Rounds(32768, m)

C28_EncodeClamps ==
    pcm # <<>> =>
        /\ Len(pcm[1]) = Len(samples)
        /\ \A i \in DOMAIN samples :
              /\ pcm[1][i] \in -32768..32767
              /\ Nearest16(pcm[1][i], samples[i])
              /\ samples[i] > 0 => pcm[1][i] >= 0
              /\ samples[i] < 0 => pcm[1][i] <= 0

\* A frame with the sample 1.0 and a sample beyond it has been encoded.
C28_Witness ==
    /\ pcm # <<>>
    /\ \E i, j \in DOMAIN samples :
          /\ samples[i] = Full /\ pcm[1][i] = 32767
          /\ samples[j] > Full /\ pcm[1][j] = 32767

\* C29: the decoded frame has as many samples as the captured one, and each
\* decoded sample is within one quantization step of the captured sample at
\* the same place, for samples in [-1, 1].
C29_RoundTrip ==
    channelData # <<>> =>
        /\ Len(channelData[1]) = Len(samples)
        /\ \A i \in DOMAIN samples :
              (samples[i] >= -Full /\ samples[i] <= Full) =>
                  /\ channelData[1][i] - samples[i] <= Units
                  /\ samples[i] - channelData[1][i] <= Units

\* A frame of two different samples of [-1, 1], one of them 1.0, has gone
\* through the codec; 1.0 comes back one step lower.
C29_Witness ==
    /\ channelData # <<>>
    /\ Len(samples) = 2
    /\ samples[1] = Full /\ channelData[1][1] = Full - Units
    /\ samples[2] < 0 /\ samples[2] >= -Full

\* The step runs the admission check for the IP of c: an init with language
\* and context on a connection that has no accepted init.
AdmissionCheckStep(c) ==
    /\ conn[c] = "open" /\ ~initDone[c]
    /\ now' = now /\ conn' = conn /\ session' = session
    /\ \E msg \in AdmissionFrames :
          /\ msg.type = "init" /\ msg.language # "" /\ msg.context # <<>>
          /\ OnMessage(c, msg)

CountNonNegative == \A ip \in DOMAIN ipSessions : ipSessions[ip].count >= 0

\* C30: the concurrent count of every IP in the rate table is never
\* negative, and right after an admission check (allowed or refused) every
\* start timestamp the table keeps for that IP is less than one hour older
\* than the time of the check.
C30_RateTableInvariants ==
    /\ []CountNonNegative
    /\ [][\A c \in Conns :
              AdmissionCheckStep(c) =>
                  /\ clientIp[c] \in DOMAIN ipSessions'
                  /\ \A i \in DOMAIN ipSessions'[clientIp[c]].timestamps :
                         now - ipSessions'[clientIp[c]].timestamps[i] < HOUR_MS]_vars

\* Two sessions of an IP have started, a third connection of that IP has
\* passed the admission check and waits for the provider, and the table
\* keeps one timestamp, younger than an hour: the check has dropped one
\* timestamp and kept the other.
C30_Witness ==
    \E ip \in DOMAIN ipSessions :
        /\ Len(ipSessions[ip].timestamps) = 1
        /\ ipSessions[ip].timestamps[1] < now
        /\ now - ipSessions[ip].timestamps[1] < HOUR_MS
        /\ Cardinality({c \in Conns : /\ conn[c] # "none"
                                       /\ clientIp[c] = ip
                                       /\ upstream[c] \in {"open", "closed"}})
               >= 2
        /\ \E c \in Conns : /\ conn[c] = "open" /\ clientIp[c] = ip
                             /\ upstream[c] = "connecting"

\* C31: in one session at most one capture pipeline is ever started, in
\* either mode and on either path, and once the session is torn down every
\* microphone stream that was acquired is stopped.
OnePipeline == \A p \in Paths : Len(client[p].captures) <= 1

StreamsStopped ==
    \A p \in Paths :
        client[p].cancelled =>
            \A i \in DOMAIN client[p].streams :
                client[p].streams[i] = "stopped"

C31_OneCapturePipeline == OnePipeline /\ StreamsStopped

\* C32: once an error event, a close event or a socket close has made the
\* status idle, the 'ended' callback of a source and the completion of a
\* microphone start leave it idle (no new session starts in the life of the
\* component modelled here).
C32_IdleIsFinal ==
    [][\A p \in Paths :
          ( /\ client[p].down /\ client[p].status = "idle"
            /\ (SourceEnds \/ MicGranted) ) =>
              client'[p].status = "idle"]_vars

\* The upstream session of c has ended: the provider reported an error or
\* closed it, or the duration timer closed it.
UpstreamEnded(c) == upstream[c] \in {"errored", "closed"} \/ TimerExpired(c)

\* The step hands a realtime or content frame of c's client to the upstream
\* handle (session.sendRealtimeInput / session.sendClientContent).
SentToSession(c) ==
    /\ conn[c] = "open" /\ session[c]
    /\ nsent'[c] = nsent[c] + 1
    /\ \E msg \in Frames : IsData(msg) /\ OnMessage(c, msg)

\* C33: once the upstream session of a connection has ended, no realtime or
\* content frame of its client is sent to that session.
C33_NothingSentAfterEnd ==
    [][\A c \in Conns : UpstreamEnded(c) => ~SentToSession(c)]_vars

\* C34: while the upstream handle of a connection is set its pending queue
\* is empty: the step that sets the handle leaves the queue empty, and no
\* step appends to the queue of a connection whose handle is set.
C34_Invariant == \A c \in Conns : session[c] => pending[c] = <<>>

C34_Step ==
    \A c \in Conns :
        /\ (~session[c] /\ session'[c]) => pending'[c] = <<>>
        /\ session[c] => Len(pending'[c]) <= Len(pending[c])

C34_HandleExcludesQueue == []C34_Invariant /\ [][C34_Step]_vars

\* A queue that held a frame was drained when the handle was set, and a
\* later frame went to the upstream without being queued.
C34_Witness ==
    \E c \in Conns :
        /\ session[c] /\ upstream[c] = "open"
        /\ flushed[c] >= 1
        /\ Len(relayed[c]) > flushed[c]
        /\ pending[c] = <<>>

\* The upstream handshake of c is in flight: an init was accepted and the
\* connect promise is not settled.
HandshakeInFlight(c) == upstream[c] = "connecting"

\* C35: the pending queue of an open connection holds frames only while its
\* upstream handshake is in flight; with no init accepted, after a failed
\* handshake and after the duration timer has ended the session it is empty.
C35_QueueOnlyDuringHandshake ==
    \A c \in Conns :
        (conn[c] = "open" /\ ~HandshakeInFlight(c)) => pending[c] = <<>>

\* The init frame has its fields, passes validation and is admitted now.
Acceptable(c, msg) ==
    /\ msg.type = "init" /\ msg.language # "" /\ msg.context # <<>>
    /\ checkLiveRateLimit(ipSessions, clientIp[c], now) = "allowed"
    /\ validateLiveInit(msg.language, msg.context) = "ok"

C36_Step ==
    \A c \in Conns :
        /\ (conn[c] = "open" /\ ~initDone[c] /\ conn'[c] = "open") =>
              \A msg \in InitFrames :
                  OnMessage(c, msg) =>
                      IF Acceptable(c, msg)
                      THEN /\ initDone'[c]
                           /\ liveAvailable => upstream'[c] = "connecting"
                      ELSE /\ ~initDone'[c]
                           /\ upstream'[c] = upstream[c]
                           /\ IsError(lastEvent'[c])
        /\ (conn[c] = "open" /\ ~initDone[c] /\ initDone'[c]) =>
              \E msg \in InitFrames : Acceptable(c, msg) /\ OnMessage(c, msg)

\* C36: an init refused for a missing field, by validation or by the
\* admission check leaves initDone false and opens nothing; an init on a
\* connection without accepted init that has its fields, is valid and is
\* admitted sets initDone and opens the upstream, whatever was refused
\* before it; initDone is set by such an init only.
C36_RefusedInitKeepsInit == [][C36_Step]_vars

\* A client whose init was refused by validation has had a later init on
\* the same connection accepted: the upstream handshake is in flight.
C36_Witness ==
    \E c \in Conns :
        /\ conn[c] = "open"
        /\ lastEvent[c] \in ValidationErrors
        /\ initDone[c]
        /\ upstream[c] = "connecting"

\* The session of the component on path p is running: started, not torn
\* down and not ended by an error or a close.
Running(p) ==
    client[p].started /\ ~client[p].cancelled /\ ~client[p].down

SpeakingWhilePlaying ==
    \A p \in Paths :
        (Running(p) /\ client[p].playing > 0) =>
            client[p].status = "speaking"

ListeningOnlyWhenSilent ==
    \A p \in Paths :
        ( /\ client[p].status # "listening"
          /\ client'[p].status = "listening" ) =>
            client'[p].playing = 0

\* C37: in a running session the status is speaking while the live set is
\* not empty, and the status becomes listening only in a step that leaves
\* the live set empty.
C37_SpeakingWhilePlaying ==
    []SpeakingWhilePlaying /\ [][ListeningOnlyWhenSilent]_vars

TypeOK ==
    /\ now \in 0..MaxTime
    /\ DOMAIN ipSessions \subseteq IPs
    /\ \A c \in Conns : conn[c] \in {"none", "open", "closed"}
    /\ \A c \in Conns : nsent[c] \in 0..MaxMsgs
====
